---- MODULE Spec2Model ----
(***************************************************************************)
(* Rate-limiting invocation controllers of the toolkit: the advanced       *)
(* debounce (function-utils/debounce.ts) and the advanced throttle         *)
(* (function-utils/throttle.ts), driven by a host clock and a host timer   *)
(* table.  One controller instance is modelled; its kind and options are   *)
(* fixed at construction.                                                  *)
(*                                                                         *)
(* The closures' handlers are written as operators over a record `s` that  *)
(* holds the closure variables together with the host timer table and the  *)
(* call log of the wrapped mock, so that a handler calling another handler *)
(* is the composition of the operators.  Each action of the machine runs   *)
(* one whole entry point (a controller call, one timer callback, flush,    *)
(* cancel) and stores the resulting record.                                *)
(***************************************************************************)
EXTENDS Integers, Sequences, FiniteSets, TLC

\* ---------------------------------------------------------------- bounds
\* the clock runs from Epoch to Epoch + MaxTime
MaxTime == 5
\* number of controller calls in one behaviour
MaxCalls == 3
\* the delay/wait argument ranges over 2..MaxDelay clock units
MaxDelay == 2
\* the maxWait option, when given, ranges over 1..MaxMaxWait
MaxMaxWait == 3
\* number of flush() and cancel() calls in one behaviour
MaxControls == 2
\* number of calls made to the circuit breaker in one behaviour
MaxBreakerCalls == 4
\* number of breaker calls awaiting the wrapped function at the same time
MaxInFlight == 2
\* failureThreshold ranges over 1..MaxThreshold
MaxThreshold == 2
\* resetTimeout and monitoringPeriod range over 1..MaxTimeout
MaxTimeout == 3
\* maxAttempts ranges over 0..MaxAttempts
MaxAttempts == 3
\* fn rejects with one of the errors 1..MaxErrors
MaxErrors == 2
\* initialDelay ranges over 1..MaxInitialDelay
MaxInitialDelay == 2
\* number of calls made to a memoized function in one behaviour
MaxMemoCalls == 4
\* the keys the keyResolver returns are 0..MaxKey
MaxKey == 2
\* options.maxSize ranges over 1..MaxSize
MaxSize == 2
\* memoizeWeak is called with the objects 1..MaxObjects as first argument
MaxObjects == 2
\* options.ttl, when configured, ranges over 0..MaxTtl
MaxTtl == 1
\* time advances at most MaxMemoTime past the construction of the cache
MaxMemoTime == 3
\* the key '' (the empty string, the one falsy key); the other keys
\* 1..MaxKey stand for non-empty strings
EmptyString == 0
\* number of calls and length of time in the comparison of the two debounces
MaxEquivCalls == 4
MaxEquivTime == 8
\* liveness runs: calls and flushes come at most LiveHorizon after construction
LiveHorizon == 2
\* Date.now() at construction; far larger than any delay, as wall time is
Epoch == 10

\* ------------------------------------------------------------- constants
\* the value of an unset closure variable (undefined / null)
Undefined == -1
\* what an entry point yields when the wrapped operation threw: the
\* exception leaves through it
Thrown == -2

\* the arguments for which the wrapped operation throws instead of returning
VARIABLE fnThrows

VARIABLES
  kind,            \* "debounce" or "throttle": which factory built the controller
  wait,            \* delay (debounce) / wait (throttle)
  leading,         \* options.leading
  trailing,        \* options.trailing
  maxWait,         \* options.maxWait (debounce only), Undefined when absent
  lastCallTime,    \* closure variable
  lastInvokeTime,  \* closure variable
  lastArgs,        \* closure variable
  result,          \* closure variable
  timerId,         \* timeoutId (debounce) / timerId (throttle): handle of the deferral timer
  maxTimeoutId,    \* handle of the maxWait timer (debounce)
  timers,          \* host timer table: the armed timers
  now,             \* host clock, Date.now()
  invocations,     \* call log of the wrapped operation (the jest.fn mock)
  error,           \* TRUE once invokeFunc has thrown 'No arguments available'
  ret,             \* value returned by the entry point that ran last
  lastOp,          \* entry point that ran last
  callCount,       \* number of controller calls so far; call k passes argument k
  hist             \* observations of the run so far (see HistInit)

\* circuit breaker (function-utils/retry.ts, createCircuitBreaker)
VARIABLES
  failureThreshold,  \* options.failureThreshold
  resetTimeout,      \* options.resetTimeout
  monitoringPeriod,  \* options.monitoringPeriod
  state,             \* closure variable: "CLOSED", "OPEN" or "HALF_OPEN"
  failureCount,      \* closure variable
  lastFailureTime,   \* closure variable
  successCount,      \* closure variable
  inFlight,          \* calls awaiting fn: their numbers and the `now` each captured
  breakerLog         \* observations of the breaker's run (see BreakerLogInit)

breakerVars == <<failureThreshold, resetTimeout, monitoringPeriod, state, failureCount,
                 lastFailureTime, successCount, inFlight, breakerLog>>

\* ---- retry (function-utils/retry.ts) and retry (function.ts)
VARIABLES
  retryKind,      \* "retry" (function-utils/retry.ts) or "simpleRetry" (function.ts)
  maxAttempts,    \* options.maxAttempts; for simpleRetry the `attempts` argument
  initialDelay,   \* options.initialDelay
  maxDelay,       \* options.maxDelay
  backoffFactor,  \* options.backoffFactor
  jitter,         \* options.jitter
  retryable,      \* the errors for which options.retryCondition returns true
  retryDelay,     \* simpleRetry: the `delay` argument
  attempt,        \* retry: the loop counter
  attempts,       \* simpleRetry: the `attempts` parameter of the current frame
  lastError,      \* retry: lastError
  retryPc,        \* "loop", "sleeping", "resolved", "rejected"
  fnLog,          \* history: outcome of every invocation of fn
  onRetryLog,     \* history: the <<error, attempt>> pairs passed to onRetry
  sleepLog,       \* history: the delays slept
  settled         \* how the promise returned to the caller settled

retryVars == <<retryKind, maxAttempts, initialDelay, maxDelay, backoffFactor, jitter,
               retryable, retryDelay, attempt, attempts, lastError, retryPc, fnLog,
               onRetryLog, sleepLog, settled>>

\* ---- memoize and createClearableMemoize (function-utils/memoize.ts)
VARIABLES
  memoKind,       \* "memoize" or "clearable"
  maxSize,        \* options.maxSize
  ttl,            \* options.ttl, Undefined when not configured
  cache,          \* the Map: key -> [value, timestamp]
  keyOrder,       \* the LRU order list
  weakCache,      \* memoizeWeak: the WeakMap, object -> Map from keys to values
  memoLog         \* history of the calls

memoVars == <<memoKind, maxSize, ttl, cache, keyOrder, weakCache, memoLog>>

\* ---- debounce of function.ts, here simpleDebounce
VARIABLES
  timeout,            \* the closure variable `timeout`: the handle, Undefined for null
  simpleTimers,       \* the timers simpleDebounce has armed: [id, args, due]
  simpleInvocations   \* history: the invocations simpleDebounce made: [at, args]

simpleVars == <<timeout, simpleTimers, simpleInvocations>>

\* everything that does not belong to the debounce/throttle controllers
beyondControllers == <<breakerVars, retryVars, memoVars, simpleVars>>

cfg == <<kind, wait, leading, trailing, maxWait, fnThrows>>
closure == <<lastCallTime, lastInvokeTime, lastArgs, result, timerId, maxTimeoutId>>
vars == <<kind, wait, leading, trailing, maxWait, fnThrows, lastCallTime, lastInvokeTime,
          lastArgs, result, timerId, maxTimeoutId, timers, now, invocations,
          error, ret, lastOp, callCount, hist, breakerVars, retryVars, memoVars, simpleVars>>

\* ------------------------------------------------------------------ host
Min(a, b) == IF a <= b THEN a ELSE b

\* the wrapped operation: a mock whose result identifies its argument
fn(args) == 100 + args

\* handles are opaque; a fresh one differs from every armed timer and from
\* the handles the closure still holds
FreshId(s) ==
  CHOOSE i \in 1..(Cardinality(s.timers) + 3) :
    /\ \A t \in s.timers : t.id # i
    /\ i # s.timerId
    /\ i # s.maxTimeoutId

\* setTimeout(cb, delay): arms a timer, a delay below zero counts as zero
setTimeout(s, cb, delay) ==
  [id |-> FreshId(s), cb |-> cb, due |-> s.now + (IF delay < 0 THEN 0 ELSE delay)]

\* clearTimeout(id): disarms the timer, no effect when it already fired
clearTimeout(s, id) == [s EXCEPT !.timers = {t \in @ : t.id # id}]

\* the state a handler runs in: closure variables, timer table, call log
Cur(op) ==
  [lastCallTime |-> lastCallTime, lastInvokeTime |-> lastInvokeTime,
   lastArgs |-> lastArgs, result |-> result, timerId |-> timerId,
   maxTimeoutId |-> maxTimeoutId, timers |-> timers, now |-> now,
   invocations |-> invocations, error |-> error, ret |-> Undefined,
   entry |-> op]

\* --------------------------------------------------------------- debounce
\* what a function declared void hands back: nothing, unless an exception
\* passes through it
Void(s) == [s EXCEPT !.ret = IF @ = Thrown THEN Thrown ELSE Undefined]

\* variant: the consumed arguments are not cleared
debounce_invokeFunc_KeepArgs(s, time) ==
  IF s.lastArgs = Undefined
  THEN [s EXCEPT !.error = TRUE]
  ELSE LET s1 == [s EXCEPT !.lastInvokeTime = time,
                           !.invocations = Append(@, [at |-> s.now, args |-> s.lastArgs,
                                                      entry |-> s.entry])]
       IN IF s.lastArgs \in fnThrows
          THEN [s1 EXCEPT !.ret = Thrown]
          ELSE [s1 EXCEPT !.result = fn(s.lastArgs), !.ret = fn(s.lastArgs)]

\* variant: the stored arguments are cleared only after the operation returned
debounce_invokeFunc_ClearAfter(s, time) ==
  IF s.lastArgs = Undefined
  THEN [s EXCEPT !.error = TRUE]
  ELSE LET s1 == [s EXCEPT !.lastInvokeTime = time,
                           !.invocations = Append(@, [at |-> s.now, args |-> s.lastArgs,
                                                      entry |-> s.entry])]
       IN IF s.lastArgs \in fnThrows
          THEN [s1 EXCEPT !.ret = Thrown]
          ELSE [s1 EXCEPT !.lastArgs = Undefined,
                          !.result = fn(s.lastArgs), !.ret = fn(s.lastArgs)]

debounce_invokeFunc(s, time) ==
  IF s.lastArgs = Undefined
  THEN [s EXCEPT !.error = TRUE]
  ELSE LET s1 == [s EXCEPT !.lastArgs = Undefined,
                           !.lastInvokeTime = time,
                           !.invocations = Append(@, [at |-> s.now, args |-> s.lastArgs,
                                                      entry |-> s.entry])]
       IN IF s.lastArgs \in fnThrows
          THEN [s1 EXCEPT !.ret = Thrown]
          ELSE [s1 EXCEPT !.result = fn(s.lastArgs), !.ret = fn(s.lastArgs)]

\* variant: the maxWait timer is not armed on the leading edge
debounce_leadingEdge_NoMaxTimer(s, time) ==
  LET t1 == setTimeout(s, "timerExpired", wait)
      s1 == [s EXCEPT !.lastInvokeTime = time,
                      !.timerId = t1.id,
                      !.timers = @ \cup {t1}]
  IN IF leading THEN debounce_invokeFunc(s1, time)
                ELSE [s1 EXCEPT !.ret = s1.result]

debounce_leadingEdge(s, time) ==
  LET t1 == setTimeout(s, "timerExpired", wait)
      s1 == [s EXCEPT !.lastInvokeTime = time,
                      !.timerId = t1.id,
                      !.timers = @ \cup {t1}]
      t2 == setTimeout(s1, "maxDelayExpired", maxWait)
      s2 == IF maxWait # Undefined
            THEN [s1 EXCEPT !.maxTimeoutId = t2.id, !.timers = @ \cup {t2}]
            ELSE s1
  IN IF leading THEN debounce_invokeFunc(s2, time)
                ELSE [s2 EXCEPT !.ret = s2.result]

\* variant: re-arms for the full delay instead of the remaining time
debounce_remainingWait_Full(s, time) == wait

debounce_remainingWait(s, time) ==
  LET timeSinceLastCall == time - (IF s.lastCallTime = Undefined THEN 0 ELSE s.lastCallTime)
      timeSinceLastInvoke == time - s.lastInvokeTime
      timeWaiting == wait - timeSinceLastCall
  IN IF maxWait # Undefined
     THEN Min(timeWaiting, maxWait - timeSinceLastInvoke)
     ELSE timeWaiting

debounce_shouldInvoke(s, time) ==
  LET timeSinceLastCall == time - (IF s.lastCallTime = Undefined THEN 0 ELSE s.lastCallTime)
      timeSinceLastInvoke == time - s.lastInvokeTime
  IN \/ s.lastCallTime = Undefined
     \/ timeSinceLastCall >= wait
     \/ timeSinceLastCall < 0
     \/ (maxWait # Undefined /\ timeSinceLastInvoke >= maxWait)

\* variant: the trailing option is not consulted
\* variant: the trailing edge does not clear the deferral timer's handle
\* variant: the trailing edge invokes without looking at the stored arguments
debounce_trailingEdge_NoArgsCheck(s, time) ==
  LET s1 == [s EXCEPT !.timerId = Undefined]
      s2 == IF s1.maxTimeoutId # Undefined
            THEN [clearTimeout(s1, s1.maxTimeoutId) EXCEPT !.maxTimeoutId = Undefined]
            ELSE s1
  IN IF trailing
     THEN debounce_invokeFunc(s2, time)
     ELSE [s2 EXCEPT !.lastArgs = Undefined, !.ret = s2.result]

debounce_trailingEdge_KeepHandle(s, time) ==
  LET s2 == IF s.maxTimeoutId # Undefined
            THEN [clearTimeout(s, s.maxTimeoutId) EXCEPT !.maxTimeoutId = Undefined]
            ELSE s
  IN IF trailing /\ s2.lastArgs # Undefined
     THEN debounce_invokeFunc(s2, time)
     ELSE [s2 EXCEPT !.lastArgs = Undefined, !.ret = s2.result]

debounce_trailingEdge_Ungated(s, time) ==
  LET s1 == [s EXCEPT !.timerId = Undefined]
      s2 == IF s1.maxTimeoutId # Undefined
            THEN [clearTimeout(s1, s1.maxTimeoutId) EXCEPT !.maxTimeoutId = Undefined]
            ELSE s1
  IN IF s2.lastArgs # Undefined
     THEN debounce_invokeFunc(s2, time)
     ELSE [s2 EXCEPT !.lastArgs = Undefined, !.ret = s2.result]

debounce_trailingEdge(s, time) ==
  LET s1 == [s EXCEPT !.timerId = Undefined]
      s2 == IF s1.maxTimeoutId # Undefined
            THEN [clearTimeout(s1, s1.maxTimeoutId) EXCEPT !.maxTimeoutId = Undefined]
            ELSE s1
  IN IF trailing /\ s2.lastArgs # Undefined
     THEN debounce_invokeFunc(s2, time)
     ELSE [s2 EXCEPT !.lastArgs = Undefined, !.ret = s2.result]

\* variant: the timer callback fires the trailing edge without re-checking
debounce_timerExpired_NoRecheck(s) == debounce_trailingEdge(s, s.now)

\* variant: a timer that expires too early is not re-armed
debounce_timerExpired_NoRearm(s) ==
  LET time == s.now
  IN IF debounce_shouldInvoke(s, time)
     THEN debounce_trailingEdge(s, time)
     ELSE [s EXCEPT !.ret = s.result]

debounce_timerExpired(s) ==
  LET time == s.now
      t1 == setTimeout(s, "timerExpired", debounce_remainingWait(s, time))
  IN IF debounce_shouldInvoke(s, time)
     THEN debounce_trailingEdge(s, time)
     ELSE [s EXCEPT !.timerId = t1.id, !.timers = @ \cup {t1}, !.ret = s.result]

\* variant: cancel() does not clear the stored arguments
debounce_cancel_KeepArgs(s) ==
  LET s1 == IF s.timerId # Undefined
            THEN [clearTimeout(s, s.timerId) EXCEPT !.timerId = Undefined]
            ELSE s
      s2 == IF s1.maxTimeoutId # Undefined
            THEN [clearTimeout(s1, s1.maxTimeoutId) EXCEPT !.maxTimeoutId = Undefined]
            ELSE s1
  IN [s2 EXCEPT !.lastInvokeTime = 0,
                !.lastCallTime = Undefined]

debounce_cancel(s) ==
  LET s1 == IF s.timerId # Undefined
            THEN [clearTimeout(s, s.timerId) EXCEPT !.timerId = Undefined]
            ELSE s
      s2 == IF s1.maxTimeoutId # Undefined
            THEN [clearTimeout(s1, s1.maxTimeoutId) EXCEPT !.maxTimeoutId = Undefined]
            ELSE s1
  IN [s2 EXCEPT !.lastInvokeTime = 0,
                !.lastArgs = Undefined,
                !.lastCallTime = Undefined]

debounce_maxDelayExpired(s) ==
  IF trailing /\ s.lastArgs # Undefined
  THEN debounce_trailingEdge(s, s.now)
  ELSE LET s1 == debounce_cancel(s) IN [s1 EXCEPT !.ret = s1.result]

debounce_flush(s) ==
  IF s.timerId = Undefined THEN [s EXCEPT !.ret = s.result]
                           ELSE debounce_trailingEdge(s, s.now)

debounce_pending(s) == s.timerId # Undefined

\* variant: a call made while the timer is armed clears it and arms a new
\* one for the full delay
debounce_debounced_Rearm(s, args) ==
  LET time == s.now
      isInvoking == debounce_shouldInvoke(s, time)
      s1 == [s EXCEPT !.lastArgs = args, !.lastCallTime = time]
      s1c == clearTimeout(s1, s1.timerId)
      t1 == setTimeout(s1c, "timerExpired", wait)
      s2 == [s1c EXCEPT !.timerId = t1.id, !.timers = @ \cup {t1}]
      t2 == setTimeout(s2, "maxDelayExpired", maxWait)
      s3 == IF s2.maxTimeoutId = Undefined
            THEN [s2 EXCEPT !.maxTimeoutId = t2.id, !.timers = @ \cup {t2}]
            ELSE s2
      s4 == IF leading THEN debounce_invokeFunc(s3, s1.lastCallTime) ELSE s3
  IN IF isInvoking /\ s1.timerId = Undefined
       THEN Void(debounce_leadingEdge(s1, s1.lastCallTime))
     ELSE IF isInvoking /\ maxWait # Undefined
       THEN Void(s4)
     ELSE s2

debounce_debounced(s, args) ==
  LET time == s.now
      isInvoking == debounce_shouldInvoke(s, time)
      s1 == [s EXCEPT !.lastArgs = args, !.lastCallTime = time]
      t1 == setTimeout(s1, "timerExpired", wait)
      s2 == [s1 EXCEPT !.timerId = t1.id, !.timers = @ \cup {t1}]
      t2 == setTimeout(s2, "maxDelayExpired", maxWait)
      s3 == IF s2.maxTimeoutId = Undefined
            THEN [s2 EXCEPT !.maxTimeoutId = t2.id, !.timers = @ \cup {t2}]
            ELSE s2
      s4 == IF leading THEN debounce_invokeFunc(s3, s1.lastCallTime) ELSE s3
  IN IF isInvoking /\ s1.timerId = Undefined
       THEN Void(debounce_leadingEdge(s1, s1.lastCallTime))
     ELSE IF isInvoking /\ maxWait # Undefined
       THEN Void(s4)
     ELSE IF s1.timerId = Undefined
       THEN s2
     ELSE s1

\* --------------------------------------------------------------- throttle
throttle_invokeFunc(s, time) ==
  IF s.lastArgs = Undefined
  THEN [s EXCEPT !.error = TRUE]
  ELSE LET s1 == [s EXCEPT !.lastArgs = Undefined,
                           !.lastInvokeTime = time,
                           !.invocations = Append(@, [at |-> s.now, args |-> s.lastArgs,
                                                      entry |-> s.entry])]
       IN IF s.lastArgs \in fnThrows
          THEN [s1 EXCEPT !.ret = Thrown]
          ELSE [s1 EXCEPT !.result = fn(s.lastArgs), !.ret = fn(s.lastArgs)]

throttle_leadingEdge(s, time) ==
  LET t1 == setTimeout(s, "timerExpired", wait)
      s1 == [s EXCEPT !.lastInvokeTime = time,
                      !.timerId = t1.id,
                      !.timers = @ \cup {t1}]
  IN IF leading THEN throttle_invokeFunc(s1, time)
                ELSE [s1 EXCEPT !.ret = s1.result]

throttle_remainingWait(s, time) ==
  LET timeSinceLastCall == time - (IF s.lastCallTime = Undefined THEN 0 ELSE s.lastCallTime)
      timeSinceLastInvoke == time - s.lastInvokeTime
      timeWaiting == wait - timeSinceLastInvoke
  IN Min(timeSinceLastCall, timeWaiting)

\* variant: the clock-went-backwards test has its comparison turned round
throttle_shouldInvoke_SignSlip(s, time) ==
  LET timeSinceLastCall == time - (IF s.lastCallTime = Undefined THEN 0 ELSE s.lastCallTime)
      timeSinceLastInvoke == time - s.lastInvokeTime
  IN \/ s.lastCallTime = Undefined
     \/ timeSinceLastCall >= wait
     \/ timeSinceLastCall >= 0
     \/ timeSinceLastInvoke >= wait

throttle_shouldInvoke(s, time) ==
  LET timeSinceLastCall == time - (IF s.lastCallTime = Undefined THEN 0 ELSE s.lastCallTime)
      timeSinceLastInvoke == time - s.lastInvokeTime
  IN \/ s.lastCallTime = Undefined
     \/ timeSinceLastCall >= wait
     \/ timeSinceLastCall < 0
     \/ timeSinceLastInvoke >= wait

\* variant: the trailing edge does not clear the timer handle
throttle_trailingEdge_KeepHandle(s, time) ==
  IF trailing /\ s.lastArgs # Undefined
  THEN throttle_invokeFunc(s, time)
  ELSE [s EXCEPT !.lastArgs = Undefined, !.ret = s.result]

throttle_trailingEdge(s, time) ==
  LET s1 == [s EXCEPT !.timerId = Undefined]
  IN IF trailing /\ s1.lastArgs # Undefined
     THEN throttle_invokeFunc(s1, time)
     ELSE [s1 EXCEPT !.lastArgs = Undefined, !.ret = s1.result]

throttle_timerExpired(s) ==
  LET time == s.now
      t1 == setTimeout(s, "timerExpired", throttle_remainingWait(s, time))
  IN IF throttle_shouldInvoke(s, time)
     THEN throttle_trailingEdge(s, time)
     ELSE [s EXCEPT !.timerId = t1.id, !.timers = @ \cup {t1}, !.ret = s.result]

\* variant: cancel() does not reset lastInvokeTime
throttle_cancel_KeepInvokeTime(s) ==
  LET s1 == IF s.timerId # Undefined
            THEN [clearTimeout(s, s.timerId) EXCEPT !.timerId = Undefined]
            ELSE s
  IN [s1 EXCEPT !.lastArgs = Undefined,
                !.lastCallTime = Undefined]

throttle_cancel(s) ==
  LET s1 == IF s.timerId # Undefined
            THEN [clearTimeout(s, s.timerId) EXCEPT !.timerId = Undefined]
            ELSE s
  IN [s1 EXCEPT !.lastInvokeTime = 0,
                !.lastArgs = Undefined,
                !.lastCallTime = Undefined]

\* variant: flush() with no timer armed returns undefined, not the cached result
throttle_flush_NoCache(s) ==
  IF s.timerId = Undefined THEN [s EXCEPT !.ret = Undefined]
                           ELSE throttle_trailingEdge(s, s.now)

throttle_flush(s) ==
  IF s.timerId = Undefined THEN [s EXCEPT !.ret = s.result]
                           ELSE throttle_trailingEdge(s, s.now)

\* variant: a call made while the timer is armed re-arms it, as a debounce would
\* variant: a call that invokes nothing returns undefined instead of the
\* cached result
throttle_throttled_NoCache(s, args) ==
  LET time == s.now
      isInvoking == throttle_shouldInvoke(s, time)
      s1 == [s EXCEPT !.lastArgs = args, !.lastCallTime = time]
      t1 == setTimeout(s1, "timerExpired", wait)
      s2 == [s1 EXCEPT !.timerId = t1.id, !.timers = @ \cup {t1}]
  IN IF isInvoking /\ s1.timerId = Undefined
       THEN throttle_leadingEdge(s1, s1.lastCallTime)
     ELSE IF s1.timerId = Undefined
       THEN [s2 EXCEPT !.ret = Undefined]
     ELSE [s1 EXCEPT !.ret = Undefined]

throttle_throttled_Rearm(s, args) ==
  LET time == s.now
      isInvoking == throttle_shouldInvoke(s, time)
      s1 == [s EXCEPT !.lastArgs = args, !.lastCallTime = time]
      s1c == clearTimeout(s1, s1.timerId)
      t1 == setTimeout(s1c, "timerExpired", wait)
      s2 == [s1c EXCEPT !.timerId = t1.id, !.timers = @ \cup {t1}]
  IN IF isInvoking /\ s1.timerId = Undefined
       THEN throttle_leadingEdge(s1, s1.lastCallTime)
     ELSE [s2 EXCEPT !.ret = s2.result]

throttle_throttled(s, args) ==
  LET time == s.now
      isInvoking == throttle_shouldInvoke(s, time)
      s1 == [s EXCEPT !.lastArgs = args, !.lastCallTime = time]
      t1 == setTimeout(s1, "timerExpired", wait)
      s2 == [s1 EXCEPT !.timerId = t1.id, !.timers = @ \cup {t1}]
  IN IF isInvoking /\ s1.timerId = Undefined
       THEN throttle_leadingEdge(s1, s1.lastCallTime)
     ELSE IF s1.timerId = Undefined
       THEN [s2 EXCEPT !.ret = s2.result]
     ELSE [s1 EXCEPT !.ret = s1.result]

\* ------------------------------------------------------ run observations
\* timers whose expiry time has come and whose callback has not run yet
Due == {t \in timers : t.due <= now}

\* late           some event (a call, flush, cancel, or the clock moving on)
\*                overtook a timer that was due: timers did not fire on time
\* flushed        flush() has been called
\* cancelled      cancel() has been called
\* quiet          no call has been made since the last cancel()
\* prevCallTime   time of the most recent controller call
\* burstFirst     argument (= index) of the first call of the current burst;
\*                a burst is a run of calls each less than `wait` after the
\*                previous one
\* burstStart     time of the first call of the current burst
\* bursts         number of bursts begun
\* controls       number of flush() and cancel() calls made
\* flushes        1 when the entry point that ran last was a flush() that
\*                invoked the operation, 2 when it was a flush() made directly
\*                after such a flush(), 0 otherwise
HistInit ==
  [late |-> FALSE, flushed |-> FALSE, cancelled |-> FALSE, quiet |-> FALSE,
   prevCallTime |-> Undefined, burstFirst |-> Undefined, burstStart |-> Undefined,
   bursts |-> 0, controls |-> 0, flushes |-> 0]

Overtaken == hist.late \/ Due # {}

HistCall ==
  LET newBurst == hist.prevCallTime = Undefined \/ now - hist.prevCallTime >= wait
  IN [hist EXCEPT !.late = Overtaken,
                  !.quiet = FALSE,
                  !.flushes = 0,
                  !.prevCallTime = now,
                  !.burstFirst = IF newBurst THEN callCount + 1 ELSE @,
                  !.burstStart = IF newBurst THEN now ELSE @,
                  !.bursts = IF newBurst THEN @ + 1 ELSE @]

\* ---------------------------------------------------------------- machine
\* calls      number of calls made to the breaker
\* fnCalls    number of times the wrapped function was invoked
\* consec     number of latest completed invocations that all failed
\* lastFailAt time at which the call that failed most recently was made (the
\*            time the code records as lastFailureTime)
\* streak     number of latest completed invocations that all succeeded while
\*            the breaker was HALF_OPEN
\* overlap    some call was made while another was still awaiting fn
\* outcome    what the entry point that ran last did: "open" (rejected with
\*            'Circuit breaker is OPEN'), "admitted" (fn invoked and awaited),
\*            "resolved" or "rejected" (fn settled)
BreakerLogInit ==
  [calls |-> 0, fnCalls |-> 0, consec |-> 0, lastFailAt |-> Undefined,
   streak |-> 0, overlap |-> FALSE, outcome |-> "none"]

\* no simpleDebounce takes part: one that is never called
SimpleDebounceUnused ==
  /\ timeout = Undefined
  /\ simpleTimers = {}
  /\ simpleInvocations = << >>

\* no retry takes part: one with the default options that was never started
RetryUnused ==
  /\ retryKind = "retry"
  /\ maxAttempts = 3
  /\ initialDelay = 1000
  /\ maxDelay = 30000
  /\ backoffFactor = 2
  /\ jitter = TRUE
  /\ retryable = {}
  /\ retryDelay = 1000
  /\ attempt = 1
  /\ attempts = 3
  /\ lastError = Undefined
  /\ retryPc = "unused"
  /\ fnLog = << >>
  /\ onRetryLog = << >>
  /\ sleepLog = << >>
  /\ settled = [how |-> "pending", v |-> Undefined]

\* calls    number of calls made to the memoized function
\* fnCalls  number of times fn was invoked
\* start    Date.now() when the cache was built
\* key, hit, value   the last call: its key, whether it was served from the
\*          cache, and what it returned
\* used     the cached keys, least recently used first, where an insertion
\*          and a hit are uses
\* storedAt for every cached key, the time its entry was stored
\* seen     memoizeWeak: the argument lists of the calls made so far
MemoLogInit ==
  [calls |-> 0, fnCalls |-> 0, start |-> 0, key |-> Undefined, hit |-> FALSE,
   value |-> Undefined, used |-> << >>, storedAt |-> << >>, seen |-> {}]

\* no memoized function takes part: one with the default options, never called
MemoUnused ==
  /\ memoKind = "memoize"
  /\ maxSize = 100
  /\ ttl = Undefined
  /\ cache = << >>
  /\ keyOrder = << >>
  /\ weakCache = << >>
  /\ memoLog = MemoLogInit

\* no circuit breaker takes part in a run of the controllers: one built with
\* the default options and never called
BreakerUnused ==
  /\ failureThreshold = 5
  /\ resetTimeout = 60000
  /\ monitoringPeriod = 60000
  /\ state = "CLOSED"
  /\ failureCount = 0
  /\ lastFailureTime = 0
  /\ successCount = 0
  /\ inFlight = {}
  /\ breakerLog = BreakerLogInit

Store(s, op) ==
  /\ lastCallTime' = s.lastCallTime
  /\ lastInvokeTime' = s.lastInvokeTime
  /\ lastArgs' = s.lastArgs
  /\ result' = s.result
  /\ timerId' = s.timerId
  /\ maxTimeoutId' = s.maxTimeoutId
  /\ timers' = s.timers
  /\ invocations' = s.invocations
  /\ error' = s.error
  /\ ret' = s.ret
  /\ lastOp' = op

\* the controller after construction, whatever the wrapped operation does
InitAnyFn ==
  /\ kind \in {"debounce", "throttle"}
  /\ wait \in 2..MaxDelay
  /\ leading \in BOOLEAN
  /\ trailing \in BOOLEAN
  /\ maxWait \in IF kind = "debounce" THEN {Undefined} \cup (1..MaxMaxWait)
                                      ELSE {Undefined}
  /\ lastCallTime = Undefined
  /\ lastInvokeTime = 0
  /\ lastArgs = Undefined
  /\ result = Undefined
  /\ timerId = Undefined
  /\ maxTimeoutId = Undefined
  /\ timers = {}
  /\ now = Epoch
  /\ invocations = << >>
  /\ error = FALSE
  /\ ret = Undefined
  /\ lastOp = "new"
  /\ callCount = 0
  /\ hist = HistInit
  /\ SimpleDebounceUnused
  /\ BreakerUnused
  /\ RetryUnused
  /\ MemoUnused

\* the wrapped operation never throws
Init == InitAnyFn /\ fnThrows = {}

\* the caller calls the debounced function with a new argument
Debounced ==
  /\ kind = "debounce"
  /\ callCount < MaxCalls
  /\ ~error
  /\ Store(debounce_debounced(Cur("call"), callCount + 1), "call")
  /\ callCount' = callCount + 1
  /\ hist' = HistCall
  /\ UNCHANGED <<cfg, now, beyondControllers>>

\* the caller calls the throttled function with a new argument
Throttled ==
  /\ kind = "throttle"
  /\ callCount < MaxCalls
  /\ ~error
  /\ Store(throttle_throttled(Cur("call"), callCount + 1), "call")
  /\ callCount' = callCount + 1
  /\ hist' = HistCall
  /\ UNCHANGED <<cfg, now, beyondControllers>>

\* the host runs the callback of a deferral timer that is due
TimerFire ==
  /\ ~error
  /\ \E t \in Due :
       /\ t.cb = "timerExpired"
       /\ LET s == [Cur("timer") EXCEPT !.timers = @ \ {t}]
          IN Store(IF kind = "debounce" THEN debounce_timerExpired(s)
                                        ELSE throttle_timerExpired(s), "timer")
  /\ hist' = [hist EXCEPT !.flushes = 0]
  /\ UNCHANGED <<cfg, now, callCount, beyondControllers>>

\* the host runs the callback of the maxWait timer that is due
MaxTimerFire ==
  /\ ~error
  /\ \E t \in Due :
       /\ t.cb = "maxDelayExpired"
       /\ Store(debounce_maxDelayExpired([Cur("max") EXCEPT !.timers = @ \ {t}]), "max")
  /\ hist' = [hist EXCEPT !.flushes = 0]
  /\ UNCHANGED <<cfg, now, callCount, beyondControllers>>

Flush ==
  /\ ~error
  /\ hist.controls < MaxControls
  /\ Store(IF kind = "debounce" THEN debounce_flush(Cur("flush"))
                                ELSE throttle_flush(Cur("flush")), "flush")
  /\ hist' = [hist EXCEPT !.late = Overtaken, !.flushed = TRUE, !.controls = @ + 1,
                          !.flushes = IF Len(invocations') > Len(invocations) THEN 1
                                      ELSE IF @ = 1 THEN 2 ELSE 0]
  /\ UNCHANGED <<cfg, now, callCount, beyondControllers>>

Cancel ==
  /\ ~error
  /\ hist.controls < MaxControls
  /\ Store(IF kind = "debounce" THEN debounce_cancel(Cur("cancel"))
                                ELSE throttle_cancel(Cur("cancel")), "cancel")
  /\ hist' = [hist EXCEPT !.late = Overtaken, !.cancelled = TRUE, !.quiet = TRUE,
                          !.controls = @ + 1, !.flushes = 0]
  /\ UNCHANGED <<cfg, now, callCount, beyondControllers>>

\* the clock moves on by one unit
Tick ==
  /\ now < Epoch + MaxTime
  /\ now' = now + 1
  /\ lastOp' = "tick"
  /\ hist' = [hist EXCEPT !.late = Overtaken, !.flushes = 0]
  /\ UNCHANGED <<cfg, closure, timers, invocations, error, ret, callCount, beyondControllers>>

Next ==
  \/ Debounced
  \/ Throttled
  \/ TimerFire
  \/ MaxTimerFire
  \/ Flush
  \/ Cancel
  \/ Tick

Spec == Init /\ [][Next]_vars

TypeOK ==
  /\ kind \in {"debounce", "throttle"}
  /\ lastCallTime \in {Undefined} \cup (Epoch..Epoch + MaxTime)
  /\ lastArgs \in {Undefined} \cup (1..MaxCalls)
  /\ \A t \in timers : t.due >= Epoch
  /\ ~error

\* ------------------------------------------------------------ vocabulary
Last(q) == q[Len(q)]

\* only controller calls and timer callbacks have run, every callback on time
OnlyCalls == ~hist.late /\ ~hist.flushed /\ ~hist.cancelled

\* `wait` of quiet has followed the most recent call and every timer that
\* was due by now has run
Settled ==
  /\ hist.prevCallTime # Undefined
  /\ now >= hist.prevCallTime + wait
  /\ Due = {}

\* the invocations made with arguments of the current burst
BurstInvocations == SelectSeq(invocations, LAMBDA e : e.args >= hist.burstFirst)

DebounceDefault ==
  kind = "debounce" /\ ~leading /\ trailing /\ maxWait = Undefined

DebounceBothEdges ==
  kind = "debounce" /\ leading /\ trailing /\ maxWait = Undefined

ThrottleBothEdges == kind = "throttle" /\ leading /\ trailing

\* ------------------------------------------------------------------ C1
\* C1: debounce with default options: after a burst of N >= 1 calls, each
\* less than `wait` after the previous one, and `wait` of quiet, the wrapped
\* operation has been invoked exactly once for the burst, with the argument
\* of the burst's last call.
C1_Coalescing ==
  (DebounceDefault /\ OnlyCalls /\ Settled) =>
     /\ Len(BurstInvocations) = 1
     /\ BurstInvocations[1].args = callCount

\* a burst of three calls has settled, and it is not the controller's first
C1_Witness ==
  /\ DebounceDefault /\ OnlyCalls /\ Settled
  /\ callCount - hist.burstFirst = 2
  /\ Len(BurstInvocations) = 1

\* ------------------------------------------------------------------ C2
\* C2: debounce, trailing only, no maxWait, timers on time, no flush: every
\* invocation is made by the timer callback exactly `wait` after the most
\* recent call; a timer callback that runs less than `wait` after the most
\* recent call invokes nothing and arms a timer for the remaining time, so
\* that it expires `wait` after that call.
C2_Step ==
  (DebounceDefault /\ ~hist'.late /\ ~hist'.flushed) =>
     /\ (Len(invocations') > Len(invocations)) =>
           /\ lastOp' = "timer"
           /\ lastCallTime # Undefined
           /\ now = lastCallTime + wait
           /\ Len(invocations') = Len(invocations) + 1
     /\ (lastOp' = "timer" /\ lastCallTime # Undefined /\ now - lastCallTime < wait) =>
           /\ invocations' = invocations
           /\ timerId' # Undefined
           /\ \E t \in timers' \ timers :
                t.id = timerId' /\ t.cb = "timerExpired" /\ t.due = lastCallTime + wait

C2_TrailingAtWait == [][C2_Step]_vars

\* a timer callback has run early in a burst and re-armed, and later the
\* burst's invocation was made
C2_Witness ==
  /\ DebounceDefault /\ ~hist.late /\ ~hist.flushed
  /\ lastOp = "timer"
  /\ invocations # << >>
  /\ Last(invocations).at = now
  /\ hist.burstStart + wait < now

\* ------------------------------------------------------------------ C3
\* C3: debounce with leading and trailing, no maxWait: once a burst has
\* settled, a burst of two or more calls has caused exactly two invocations,
\* the first inside the burst's first call with that call's argument and the
\* second by the timer `wait` after the last call with the last call's
\* argument; a burst of one call has caused exactly the leading invocation.
C3_LeadingAndTrailing ==
  (DebounceBothEdges /\ OnlyCalls /\ Settled) =>
     LET first == [at |-> hist.burstStart, args |-> hist.burstFirst, entry |-> "call"]
         last == [at |-> hist.prevCallTime + wait, args |-> callCount, entry |-> "timer"]
     IN BurstInvocations = IF callCount > hist.burstFirst THEN <<first, last>>
                                                          ELSE <<first>>

\* a settled burst of two or more calls with its two invocations
C3_Witness ==
  /\ DebounceBothEdges /\ OnlyCalls /\ Settled
  /\ callCount > hist.burstFirst
  /\ Len(BurstInvocations) = 2

\* a settled burst of a single call with its leading invocation only
C3_WitnessSingle ==
  /\ DebounceBothEdges /\ OnlyCalls /\ Settled
  /\ callCount = hist.burstFirst
  /\ Len(BurstInvocations) = 1

\* ------------------------------------------------------------------ C4
\* C4: throttle with leading and trailing, timers on time, no flush or
\* cancel: (a) the call that opens a burst invokes the operation inside the
\* call, with its own argument, and returns the result; (b) a call made
\* while the window timer is armed invokes nothing, leaves the timer as it
\* is and only overwrites the stored argument; (c) when the timer of a
\* window opened by a leading invocation fires after further calls, it fires
\* `wait` after that invocation and makes exactly one invocation, with the
\* argument of the most recent call.
C4_Step ==
  (ThrottleBothEdges /\ ~hist'.late /\ ~hist'.flushed /\ ~hist'.cancelled) =>
     /\ (lastOp' = "call" /\ callCount' = callCount + 1
           /\ hist'.burstFirst = callCount') =>
           /\ invocations' = Append(invocations,
                 [at |-> now, args |-> callCount', entry |-> "call"])
           /\ ret' = fn(callCount')
           /\ \E t \in timers' : t.id = timerId' /\ t.due = now + wait
     /\ (callCount' = callCount + 1 /\ timerId # Undefined) =>
           /\ invocations' = invocations
           /\ timers' = timers
           /\ timerId' = timerId
           /\ lastArgs' = callCount'
     /\ (lastOp' = "timer" /\ lastArgs # Undefined /\ invocations # << >>
           /\ Last(invocations).entry = "call") =>
           /\ now = Last(invocations).at + wait
           /\ invocations' = Append(invocations,
                 [at |-> now, args |-> callCount, entry |-> "timer"])

C4_LeadingThenTrailing == [][C4_Step]_vars

\* a window opened by a leading invocation took two more calls and its
\* timer has made the trailing invocation with the last argument
C4_Witness ==
  /\ ThrottleBothEdges /\ OnlyCalls
  /\ lastOp = "timer"
  /\ callCount = 3
  /\ Len(invocations) = 2
  /\ invocations[1].entry = "call" /\ invocations[1].args = 1
  /\ invocations[2].args = 3 /\ invocations[2].at = invocations[1].at + wait

\* ------------------------------------------------------------------ C5
\* C5: throttle with leading and trailing, no flush or cancel, every call
\* less than `wait` after the previous one: for every span T from the first
\* call, at most ceil(T / wait) + 1 invocations have been made within it.
CeilDiv(a, b) == (a + b - 1) \div b

InvocationsWithin(T) ==
  Cardinality({i \in DOMAIN invocations : invocations[i].at <= hist.burstStart + T})

C5_RateCap ==
  (ThrottleBothEdges /\ ~hist.flushed /\ ~hist.cancelled /\ hist.bursts = 1) =>
     \A T \in 0..MaxTime : InvocationsWithin(T) <= CeilDiv(T, wait) + 1

\* continuous calls over two windows with a leading and two trailing invocations
C5_Witness ==
  /\ ThrottleBothEdges /\ ~hist.flushed /\ ~hist.cancelled /\ hist.bursts = 1
  /\ Len(invocations) = 3
  /\ callCount >= 3

\* ------------------------------------------------------------------ C6
\* C6: throttle, calls and timer callbacks only: any two invocations of the
\* wrapped operation are at least `wait` apart.
C6_RateCapAnyPattern ==
  (kind = "throttle" /\ OnlyCalls) =>
     \A i, j \in DOMAIN invocations :
        i < j => invocations[j].at - invocations[i].at >= wait

\* ------------------------------------------------------------------ C7
\* C7: after cancel(), as long as no further call is made, no step (timer
\* callback, maxWait callback, flush, clock) invokes the wrapped operation.
C7_Step == (hist.quiet /\ hist'.quiet) => invocations' = invocations

C7_CancelStopsInvocations == [][C7_Step]_vars

\* a timer armed before cancel() has expired and run after it, with no call
\* in between
C7_Witness ==
  /\ hist.quiet
  /\ lastOp = "timer"
  /\ callCount >= 1

\* time has passed the expiry of the timer that cancel() cleared
C7_WitnessCleared ==
  /\ hist.quiet
  /\ lastOp = "tick"
  /\ hist.prevCallTime # Undefined
  /\ now > hist.prevCallTime + wait
  /\ (maxWait # Undefined => now > hist.burstStart + maxWait)

\* ------------------------------------------------------------------ C8
\* C8: with trailing enabled, flush() made while the timer handle is set and
\* an argument is stored invokes the operation exactly once inside flush(),
\* with the argument of the most recent call, and returns that result; a
\* flush() made directly afterwards returns the same result and invokes
\* nothing.
C8_Step ==
  /\ (lastOp' = "flush" /\ hist'.controls = hist.controls + 1 /\ trailing
        /\ timerId # Undefined /\ lastArgs # Undefined) =>
        /\ lastArgs = callCount
        /\ invocations' = Append(invocations,
              [at |-> now, args |-> callCount, entry |-> "flush"])
        /\ ret' = fn(callCount)
  /\ (hist.flushes = 1 /\ lastOp' = "flush" /\ hist'.controls = hist.controls + 1) =>
        /\ invocations' = invocations
        /\ ret' = ret

C8_FlushDeterminism == [][C8_Step]_vars

\* a second flush() right after a flush() that invoked
C8_Witness ==
  /\ hist.flushes = 2
  /\ lastOp = "flush"
  /\ trailing
  /\ ret = fn(callCount)
  /\ Last(invocations).entry = "flush"

\* ------------------------------------------------------------------ C9
\* C9: debounce with maxWait and trailing, timers on time, no flush or
\* cancel: by the time maxWait has passed since the first call of a burst
\* and the callbacks due by then have run, an invocation has been made for
\* the burst within maxWait of that first call; for every burst.
C9_MaxWaitCeiling ==
  (/\ kind = "debounce" /\ maxWait # Undefined /\ trailing
   /\ OnlyCalls
   /\ hist.burstStart # Undefined
   /\ now >= hist.burstStart + maxWait
   /\ Due = {}) =>
     \E i \in DOMAIN invocations :
        /\ invocations[i].args >= hist.burstFirst
        /\ invocations[i].at <= hist.burstStart + maxWait

\* the first burst was cut by the maxWait timer while calls kept arriving
C9_Witness ==
  /\ kind = "debounce" /\ maxWait # Undefined /\ trailing /\ ~leading
  /\ OnlyCalls
  /\ hist.bursts = 1
  /\ callCount >= 3
  /\ now = hist.burstStart + maxWait
  /\ now < hist.prevCallTime + wait
  /\ invocations # << >>
  /\ Last(invocations).at = now

\* a later burst got its invocation within maxWait of its first call
C9_WitnessLaterBurst ==
  /\ kind = "debounce" /\ maxWait # Undefined /\ trailing /\ ~leading
  /\ OnlyCalls
  /\ hist.bursts >= 2
  /\ Due = {}
  /\ now >= hist.burstStart + maxWait
  /\ Len(BurstInvocations) >= 1

\* ----------------------------------------------------------------- C10
\* C10: an invocation made inside a controller call happens only with
\* leading enabled, and one made by a timer callback, the maxWait callback
\* or flush() only with trailing enabled; with both disabled the operation
\* is never invoked.
C10_EdgeGating ==
  /\ \A i \in DOMAIN invocations :
        /\ invocations[i].entry \in {"call", "timer", "max", "flush"}
        /\ invocations[i].entry = "call" => leading
        /\ invocations[i].entry \in {"timer", "max", "flush"} => trailing
  /\ (~leading /\ ~trailing) => invocations = << >>

\* trailing disabled: calls made inside the window were dropped
C10_Witness ==
  /\ leading /\ ~trailing
  /\ callCount >= 2
  /\ lastOp = "timer"
  /\ Len(invocations) = 1
  /\ lastArgs = Undefined
  /\ timerId = Undefined

\* both edges disabled: calls, a timer callback and a flush, no invocation
C10_WitnessBothOff ==
  /\ ~leading /\ ~trailing
  /\ callCount >= 2
  /\ hist.flushed
  /\ lastOp = "timer"

C11_Step ==
  (lastOp' = "cancel" /\ hist'.controls = hist.controls + 1) =>
     /\ timerId' = Undefined /\ maxTimeoutId' = Undefined
     /\ lastCallTime' = Undefined /\ lastInvokeTime' = 0
     /\ lastArgs' = Undefined
     /\ result' = result
     /\ invocations' = invocations
     /\ (lastOp = "cancel") => UNCHANGED <<closure, timers>>

C11_WitnessTwice ==
  /\ lastOp = "cancel"
  /\ hist.controls = 2
  /\ ~hist.flushed
  /\ callCount >= 1

\* ----------------------------------------------------------------- C12
\* what pending() returns in the current state (throttle exposes no
\* pending(); its handle is read directly)
Pending ==
  IF kind = "debounce" THEN debounce_pending(Cur("pending")) ELSE timerId # Undefined

\* C12 as claimed: between operations pending() is true if and only if a
\* call's arguments are stored and not yet invoked with.
C12_PendingIffArgs ==
  (kind = "debounce") => (Pending <=> lastArgs # Undefined)

\* C12 as amended: whenever arguments are stored and not yet invoked with,
\* pending() is true (the handle can also be set with nothing stored);
\* pending() is false before any call, and false right after a timer
\* callback, maxWait callback or flush has made the deferred invocation.
C12_State ==
  /\ lastArgs # Undefined => Pending
  /\ callCount = 0 => ~Pending

C12_Step ==
  (Len(invocations') > Len(invocations) /\ lastOp' \in {"timer", "max", "flush"}) =>
     /\ timerId' = Undefined
     /\ lastArgs' = Undefined

C12_PendingWhenArgs == []C12_State /\ [][C12_Step]_vars

\* a timer callback has just made the deferred invocation of a default
\* debounce: pending() went from true to false
C12_Witness ==
  /\ kind = "debounce" /\ ~leading /\ trailing
  /\ lastOp = "timer"
  /\ invocations # << >>
  /\ Last(invocations).at = now /\ Last(invocations).entry = "timer"
  /\ ~Pending

\* arguments stored and pending() true
C12_WitnessStored ==
  /\ kind = "debounce"
  /\ lastArgs # Undefined
  /\ Pending

\* ----------------------------------------------------------------- C13
\* C13: a throttle call that makes the leading invocation returns the result
\* of that invocation; a throttle call that invokes nothing returns the
\* result of the most recent invocation, undefined when there has been none.
C13_Step ==
  (kind = "throttle" /\ lastOp' = "call" /\ callCount' = callCount + 1) =>
     IF Len(invocations') > Len(invocations)
     THEN /\ invocations' = Append(invocations,
                [at |-> now, args |-> callCount', entry |-> "call"])
          /\ ret' = fn(callCount')
     ELSE /\ invocations' = invocations
          /\ ret' = IF invocations = << >> THEN Undefined
                    ELSE fn(Last(invocations).args)

C13_ThrottleReturn == [][C13_Step]_vars

\* a call inside the window has returned the cached result of the leading
\* invocation
C13_Witness ==
  /\ kind = "throttle" /\ leading
  /\ lastOp = "call"
  /\ callCount = 2
  /\ Len(invocations) = 1
  /\ ret = fn(1)

\* with leading disabled the first call has returned undefined
C13_WitnessUndefined ==
  /\ kind = "throttle" /\ ~leading
  /\ lastOp = "call"
  /\ invocations = << >>
  /\ ret = Undefined

\* a call has returned the result of its own leading invocation
C13_WitnessLeading ==
  /\ kind = "throttle"
  /\ lastOp = "call"
  /\ callCount >= 2
  /\ invocations # << >>
  /\ Last(invocations).args = callCount
  /\ ret = fn(callCount)

\* ----------------------------------------------------------------- C14
\* C14: throttle with leading enabled, timers on time, no flush or cancel:
\* when the window timer of a leading invocation fires and no call was made
\* inside the window, it invokes nothing and leaves no timer and no stored
\* argument; a call made `wait` or more after the previous call then makes
\* a leading invocation inside the call.
C14_Step ==
  (kind = "throttle" /\ leading /\ ~hist'.late /\ ~hist'.flushed /\ ~hist'.cancelled) =>
     /\ (lastOp' = "timer" /\ lastArgs = Undefined /\ invocations # << >>
           /\ Last(invocations).entry = "call") =>
           /\ invocations' = invocations
           /\ timerId' = Undefined
           /\ lastArgs' = Undefined
           /\ timers' = {}
     /\ (lastOp' = "call" /\ callCount' = callCount + 1
           /\ hist.prevCallTime # Undefined /\ now - hist.prevCallTime >= wait) =>
           /\ timerId = Undefined
           /\ invocations' = Append(invocations,
                 [at |-> now, args |-> callCount', entry |-> "call"])

C14_WindowReset == [][C14_Step]_vars

\* after a lone leading invocation and its window timer, the next call,
\* `wait` after the first, has invoked at once
C14_Witness ==
  /\ kind = "throttle" /\ leading
  /\ OnlyCalls
  /\ lastOp = "call"
  /\ callCount = 2
  /\ Len(invocations) = 2
  /\ invocations[1].entry = "call" /\ invocations[2].entry = "call"
  /\ invocations[2].at = invocations[1].at + wait

\* ========================================================= throttleSimple
\* throttleSimple (function-utils/throttle.ts) keeps two closure variables,
\* timeoutId and lastArgs, held here in `timerId` and `lastArgs`; `wait` is
\* its delay.  It runs under its own specification, SpecSimple.

throttleSimple_throttled(s, args) ==
  LET s1 == [s EXCEPT !.lastArgs = args]
      t1 == setTimeout(s1, "simpleTimeout", wait)
  IN IF s1.timerId = Undefined
     THEN [s1 EXCEPT !.timerId = t1.id, !.timers = @ \cup {t1}]
     ELSE s1

\* the arrow function handed to setTimeout
throttleSimple_timeout(s) ==
  LET s1 == IF s.lastArgs # Undefined
            THEN [s EXCEPT !.invocations = Append(@, [at |-> s.now, args |-> s.lastArgs,
                                                      entry |-> s.entry]),
                           !.lastArgs = Undefined]
            ELSE s
  IN [s1 EXCEPT !.timerId = Undefined]

\* variant: cancel() forgets clearTimeout
throttleSimple_cancel_NoClear(s) ==
  IF s.timerId # Undefined
  THEN [s EXCEPT !.timerId = Undefined, !.lastArgs = Undefined]
  ELSE s

throttleSimple_cancel(s) ==
  IF s.timerId # Undefined
  THEN [clearTimeout(s, s.timerId) EXCEPT !.timerId = Undefined, !.lastArgs = Undefined]
  ELSE s

InitSimple ==
  /\ kind = "throttleSimple"
  /\ fnThrows = {}
  /\ wait \in 1..MaxDelay
  /\ leading = FALSE
  /\ trailing = TRUE
  /\ maxWait = Undefined
  /\ lastCallTime = Undefined
  /\ lastInvokeTime = 0
  /\ lastArgs = Undefined
  /\ result = Undefined
  /\ timerId = Undefined
  /\ maxTimeoutId = Undefined
  /\ timers = {}
  /\ now = Epoch
  /\ invocations = << >>
  /\ error = FALSE
  /\ ret = Undefined
  /\ lastOp = "new"
  /\ callCount = 0
  /\ hist = HistInit
  /\ SimpleDebounceUnused
  /\ BreakerUnused
  /\ RetryUnused
  /\ MemoUnused

\* the caller calls the simply throttled function with a new argument
SimpleThrottled ==
  /\ kind = "throttleSimple"
  /\ callCount < MaxCalls
  /\ Store(throttleSimple_throttled(Cur("call"), callCount + 1), "call")
  /\ callCount' = callCount + 1
  /\ hist' = HistCall
  /\ UNCHANGED <<cfg, now, beyondControllers>>

\* the host runs the timeout callback that is due
SimpleTimerFire ==
  /\ kind = "throttleSimple"
  /\ \E t \in Due :
       /\ t.cb = "simpleTimeout"
       /\ Store(throttleSimple_timeout([Cur("timer") EXCEPT !.timers = @ \ {t}]), "timer")
  /\ hist' = [hist EXCEPT !.flushes = 0]
  /\ UNCHANGED <<cfg, now, callCount, beyondControllers>>

SimpleCancel ==
  /\ kind = "throttleSimple"
  /\ hist.controls < MaxControls
  /\ Store(throttleSimple_cancel(Cur("cancel")), "cancel")
  /\ hist' = [hist EXCEPT !.late = Overtaken, !.cancelled = TRUE, !.quiet = TRUE,
                          !.controls = @ + 1, !.flushes = 0]
  /\ UNCHANGED <<cfg, now, callCount, beyondControllers>>

NextSimple ==
  \/ SimpleThrottled
  \/ SimpleTimerFire
  \/ SimpleCancel
  \/ Tick

SpecSimple == InitSimple /\ [][NextSimple]_vars

\* ----------------------------------------------------------------- C15
\* C15: throttleSimple: a call with no timer armed arms exactly one timer
\* for `delay`; a call with the timer armed only overwrites the stored
\* argument; the timer callback invokes the function exactly once with the
\* most recent argument and leaves the controller idle; cancel() with the
\* timer armed disarms it, so that its invocation never happens, and
\* cancel() when idle changes nothing.
C15_Step ==
  /\ (lastOp' = "call" /\ callCount' = callCount + 1 /\ timerId = Undefined) =>
        /\ timers = {}
        /\ timers' = {[id |-> timerId', cb |-> "simpleTimeout", due |-> now + wait]}
        /\ lastArgs' = callCount'
        /\ invocations' = invocations
  /\ (lastOp' = "call" /\ callCount' = callCount + 1 /\ timerId # Undefined) =>
        /\ timers' = timers
        /\ timerId' = timerId
        /\ lastArgs' = callCount'
        /\ invocations' = invocations
  /\ (lastOp' = "timer") =>
        /\ invocations' = Append(invocations,
              [at |-> now, args |-> callCount, entry |-> "timer"])
        /\ timers' = {}
        /\ timerId' = Undefined
        /\ lastArgs' = Undefined
  /\ (lastOp' = "cancel" /\ hist'.controls = hist.controls + 1) =>
        /\ invocations' = invocations
        /\ timers' = {}
        /\ timerId' = Undefined
        /\ lastArgs' = Undefined
        /\ (timerId = Undefined) => UNCHANGED <<closure, timers>>

C15_SimpleCycle == [][C15_Step]_vars

\* second cycle: after a fired cycle, a new call armed a timer, further
\* calls overwrote the argument and the timer fired with the last one
C15_Witness ==
  /\ kind = "throttleSimple"
  /\ lastOp = "timer"
  /\ Len(invocations) = 2
  /\ invocations[1].args = 1
  /\ invocations[2].args = 3

\* a cancelled cycle: time is past the expiry of the cleared timer and the
\* function was not invoked
C15_WitnessCancel ==
  /\ kind = "throttleSimple"
  /\ hist.cancelled
  /\ callCount = 1
  /\ now > hist.prevCallTime + wait
  /\ invocations = << >>

\* ======================================================== circuit breaker
\* createCircuitBreaker (function-utils/retry.ts).  The returned function is
\* async: it runs up to `await fn(...)` inside the call and resumes when fn
\* settles, so that a call is two steps and calls can overlap.  It runs
\* under its own specification, SpecBreaker.

CurBreaker ==
  [state |-> state, failureCount |-> failureCount,
   lastFailureTime |-> lastFailureTime, successCount |-> successCount]

StoreBreaker(b) ==
  /\ state' = b.state
  /\ failureCount' = b.failureCount
  /\ lastFailureTime' = b.lastFailureTime
  /\ successCount' = b.successCount

breaker_resetFailureCount(b) == [b EXCEPT !.failureCount = 0, !.successCount = 0]

\* the monitoring-period reset at the head of a call
breaker_monitor(b, t) ==
  IF t - b.lastFailureTime > monitoringPeriod
  THEN LET b1 == breaker_resetFailureCount(b)
       IN IF b1.state = "OPEN" THEN [b1 EXCEPT !.state = "CLOSED"] ELSE b1
  ELSE b

\* the OPEN check: is the call rejected with 'Circuit breaker is OPEN'
breaker_rejects(b, t) == b.state = "OPEN" /\ t - b.lastFailureTime < resetTimeout

\* the call up to `await fn(...)`, for a call that is not rejected
breaker_admit(b) == IF b.state = "OPEN" THEN [b EXCEPT !.state = "HALF_OPEN"] ELSE b

\* the continuation after fn resolved
breaker_onSuccess(b) ==
  IF b.state = "HALF_OPEN"
  THEN LET b1 == [b EXCEPT !.successCount = @ + 1]
       IN IF b1.successCount >= 2
          THEN breaker_resetFailureCount([b1 EXCEPT !.state = "CLOSED"])
          ELSE b1
  ELSE IF b.state = "CLOSED" THEN breaker_resetFailureCount(b)
  ELSE b

\* the continuation after fn rejected; t is the `now` the call captured
breaker_onFailure(b, t) ==
  LET b1 == [b EXCEPT !.failureCount = @ + 1, !.lastFailureTime = t]
  IN IF b1.state = "HALF_OPEN" THEN [b1 EXCEPT !.state = "OPEN"]
     ELSE IF b1.state = "CLOSED" /\ b1.failureCount >= failureThreshold
       THEN [b1 EXCEPT !.state = "OPEN"]
     ELSE b1

\* no controller takes part in a run of the breaker: a default debounce that
\* is never called
ControllersUnused ==
  /\ kind = "debounce"
  /\ fnThrows = {}
  /\ wait = 2
  /\ leading = FALSE
  /\ trailing = TRUE
  /\ maxWait = Undefined
  /\ lastCallTime = Undefined
  /\ lastInvokeTime = 0
  /\ lastArgs = Undefined
  /\ result = Undefined
  /\ timerId = Undefined
  /\ maxTimeoutId = Undefined
  /\ timers = {}
  /\ invocations = << >>
  /\ error = FALSE
  /\ ret = Undefined
  /\ callCount = 0
  /\ hist = HistInit
  /\ SimpleDebounceUnused

InitBreaker ==
  /\ ControllersUnused
  /\ RetryUnused
  /\ MemoUnused
  /\ now = Epoch
  /\ lastOp = "new"
  /\ failureThreshold \in 1..MaxThreshold
  /\ resetTimeout \in 1..MaxTimeout
  /\ monitoringPeriod \in 1..MaxTimeout
  /\ state = "CLOSED"
  /\ failureCount = 0
  /\ lastFailureTime = 0
  /\ successCount = 0
  /\ inFlight = {}
  /\ breakerLog = BreakerLogInit

breakerOptions == <<failureThreshold, resetTimeout, monitoringPeriod>>
controllerState == <<cfg, closure, timers, invocations, error, ret, callCount, hist,
                     simpleVars>>
outsideBreaker == <<controllerState, retryVars, memoVars>>

\* a caller calls the breaker; the call runs up to the await or throws
BreakerCall ==
  /\ breakerLog.calls < MaxBreakerCalls
  /\ Cardinality(inFlight) < MaxInFlight
  /\ LET b == breaker_monitor(CurBreaker, now)
     IN IF breaker_rejects(b, now)
        THEN /\ StoreBreaker(b)
             /\ inFlight' = inFlight
             /\ breakerLog' = [breakerLog EXCEPT !.calls = @ + 1, !.outcome = "open"]
        ELSE /\ StoreBreaker(breaker_admit(b))
             /\ inFlight' = inFlight \cup {[n |-> breakerLog.calls + 1, now |-> now]}
             /\ breakerLog' = [breakerLog EXCEPT !.calls = @ + 1,
                                                 !.fnCalls = @ + 1,
                                                 !.overlap = @ \/ inFlight # {},
                                                 !.outcome = "admitted"]
  /\ lastOp' = "call"
  /\ UNCHANGED <<breakerOptions, outsideBreaker, now>>

\* fn resolves for a call that awaits it
BreakerResolve ==
  /\ \E c \in inFlight :
       /\ StoreBreaker(breaker_onSuccess(CurBreaker))
       /\ inFlight' = inFlight \ {c}
       /\ breakerLog' = [breakerLog EXCEPT
                           !.consec = 0,
                           !.streak = IF state = "HALF_OPEN" THEN @ + 1 ELSE 0,
                           !.outcome = "resolved"]
  /\ lastOp' = "resolve"
  /\ UNCHANGED <<breakerOptions, outsideBreaker, now>>

\* fn rejects for a call that awaits it
BreakerReject ==
  /\ \E c \in inFlight :
       /\ StoreBreaker(breaker_onFailure(CurBreaker, c.now))
       /\ inFlight' = inFlight \ {c}
       /\ breakerLog' = [breakerLog EXCEPT
                           !.consec = @ + 1,
                           !.lastFailAt = c.now,
                           !.streak = 0,
                           !.outcome = "rejected"]
  /\ lastOp' = "reject"
  /\ UNCHANGED <<breakerOptions, outsideBreaker, now>>

NextBreaker ==
  \/ BreakerCall
  \/ BreakerResolve
  \/ BreakerReject
  \/ Tick

SpecBreaker == InitBreaker /\ [][NextBreaker]_vars

BreakerTypeOK ==
  /\ state \in {"CLOSED", "OPEN", "HALF_OPEN"}
  /\ failureCount >= 0
  /\ successCount \in 0..1

\* ------------------------------------------------------------------- C16
\* C16, as the specification states it: for calls that do not overlap, once
\* the latest failureThreshold invocations of fn have all failed the
\* breaker is OPEN, and a call made less than resetTimeout after the most
\* recent failure is rejected with 'Circuit breaker is OPEN' and does not
\* invoke fn, for every choice of the three options.  The code does not
\* satisfy it.
C16_Step ==
  /\ (/\ lastOp' = "reject"
      /\ breakerLog'.outcome = "rejected"
      /\ breakerLog'.consec >= failureThreshold
      /\ ~breakerLog'.overlap)
       => state' = "OPEN"
  /\ (/\ lastOp' = "call"
      /\ breakerLog'.calls = breakerLog.calls + 1
      /\ breakerLog.consec >= failureThreshold
      /\ now - breakerLog.lastFailAt < resetTimeout
      /\ ~breakerLog'.overlap)
       => /\ breakerLog'.outcome = "open"
          /\ breakerLog'.fnCalls = breakerLog.fnCalls

C16_OpenRejects == [][C16_Step]_vars

\* ------------------------------------------------------------------- C17
\* C17, as the specification states it: for calls that do not overlap, a
\* call made to an OPEN breaker once resetTimeout has elapsed since the
\* last failure is admitted, and when the latest two invocations of fn both
\* succeeded while the breaker was HALF_OPEN the breaker is CLOSED with
\* failureCount 0, whatever the time between the two.  The code does not
\* satisfy it.
C17_Step ==
  /\ (/\ lastOp' = "call"
      /\ breakerLog'.calls = breakerLog.calls + 1
      /\ state = "OPEN"
      /\ now - breakerLog.lastFailAt >= resetTimeout
      /\ ~breakerLog'.overlap)
       => /\ breakerLog'.outcome = "admitted"
          /\ state' \in {"HALF_OPEN", "CLOSED"}
  /\ (/\ lastOp' = "resolve"
      /\ breakerLog'.outcome = "resolved"
      /\ breakerLog'.streak >= 2
      /\ ~breakerLog'.overlap)
       => /\ state' = "CLOSED"
          /\ failureCount' = 0

C17_HalfOpenCloses == [][C17_Step]_vars

\* ================================================================== retry
\* retry (function-utils/retry.ts) and the three-argument retry of
\* function.ts, here simpleRetry.  Both are async: a step runs from one
\* await to the next.  fn settles as the environment chooses: it resolves
\* with a value that tells the invocations apart or rejects with one of
\* the errors 1..MaxErrors.  They run under their own specification,
\* SpecRetry.

Errors == 1..MaxErrors

RECURSIVE Pow(_, _)
Pow(b, e) == IF e = 0 THEN 1 ELSE b * Pow(b, e - 1)

CurRetry ==
  [attempt |-> attempt, attempts |-> attempts, lastError |-> lastError,
   pc |-> retryPc, onRetryLog |-> onRetryLog, sleepLog |-> sleepLog,
   settled |-> settled]

StoreRetry(r) ==
  /\ attempt' = r.attempt
  /\ attempts' = r.attempts
  /\ lastError' = r.lastError
  /\ retryPc' = r.pc
  /\ onRetryLog' = r.onRetryLog
  /\ sleepLog' = r.sleepLog
  /\ settled' = r.settled

retryCondition(e) == e \in retryable

\* Math.min(initialDelay * Math.pow(backoffFactor, attempt - 1), maxDelay)
retry_delay(a) == Min(initialDelay * Pow(backoffFactor, a - 1), maxDelay)

\* the values delay * (0.5 + Math.random() * 0.5) can take, to the
\* millisecond, when jitter is on; the delay itself when it is off
retry_finalDelay(a) ==
  IF jitter
  THEN {d \in 0..retry_delay(a) : 2 * d >= retry_delay(a)}
  ELSE {retry_delay(a)}

retry_resolved(r, v) ==
  [r EXCEPT !.pc = "resolved", !.settled = [how |-> "resolved", v |-> v]]

retry_rejected(r, e) ==
  [r EXCEPT !.pc = "rejected", !.settled = [how |-> "rejected", v |-> e]]

\* the catch block of retry, up to `await sleep(finalDelay)`; d is the delay
\* the jitter picks
retry_catch_NotifyFirst(r, e, d) ==
  LET r1 == [r EXCEPT !.lastError = e, !.onRetryLog = Append(@, <<e, r.attempt>>)]
  IN IF r1.attempt = maxAttempts \/ ~retryCondition(e)
     THEN retry_rejected(r1, e)
     ELSE [r1 EXCEPT !.sleepLog = Append(@, d), !.pc = "sleeping"]

retry_catch(r, e, d) ==
  LET r1 == [r EXCEPT !.lastError = e]
  IN IF r1.attempt = maxAttempts \/ ~retryCondition(e)
     THEN retry_rejected(r1, e)
     ELSE [r1 EXCEPT !.onRetryLog = Append(@, <<e, r1.attempt>>),
                     !.sleepLog = Append(@, d),
                     !.pc = "sleeping"]

\* the sleep is over: attempt++ and back to the loop condition
retry_next(r) == [r EXCEPT !.attempt = @ + 1, !.pc = "loop"]

\* the catch block of simpleRetry, up to the await of the delay
simpleRetry_catch_OneMore(r, e) ==
  IF r.attempts <= 0
  THEN retry_rejected(r, e)
  ELSE [r EXCEPT !.sleepLog = Append(@, retryDelay), !.pc = "sleeping"]

simpleRetry_catch(r, e) ==
  IF r.attempts <= 1
  THEN retry_rejected(r, e)
  ELSE [r EXCEPT !.sleepLog = Append(@, retryDelay), !.pc = "sleeping"]

\* the delay is over: return retry(fn, attempts - 1, delay)
simpleRetry_next(r) == [r EXCEPT !.attempts = @ - 1, !.pc = "loop"]

InitRetry ==
  /\ ControllersUnused
  /\ BreakerUnused
  /\ MemoUnused
  /\ now = Epoch
  /\ lastOp = "new"
  /\ retryKind \in {"retry", "simpleRetry"}
  /\ maxAttempts \in 0..MaxAttempts
  /\ IF retryKind = "retry"
     THEN /\ initialDelay \in 1..MaxInitialDelay
          /\ maxDelay = MaxInitialDelay + 1
          /\ backoffFactor = 2
          /\ jitter \in BOOLEAN
          /\ retryable \in SUBSET Errors
          /\ retryDelay = 1000
     ELSE /\ initialDelay = 1000
          /\ maxDelay = 30000
          /\ backoffFactor = 2
          /\ jitter = TRUE
          /\ retryable = Errors
          /\ retryDelay \in 1..MaxInitialDelay
  /\ attempt = 1
  /\ attempts = maxAttempts
  /\ lastError = Undefined
  /\ retryPc = "loop"
  /\ fnLog = << >>
  /\ onRetryLog = << >>
  /\ sleepLog = << >>
  /\ settled = [how |-> "pending", v |-> Undefined]

retryOptions == <<retryKind, maxAttempts, initialDelay, maxDelay, backoffFactor,
                  jitter, retryable, retryDelay>>
outsideRetry == <<controllerState, now, breakerVars, memoVars>>

\* does the code invoke fn from the loop position
retry_enters == retryKind = "simpleRetry" \/ attempt <= maxAttempts

\* fn is invoked and resolves
RetryFnResolves ==
  /\ retryPc = "loop"
  /\ retry_enters
  /\ LET v == 100 + Len(fnLog) + 1
     IN /\ fnLog' = Append(fnLog, [ok |-> TRUE, v |-> v])
        /\ StoreRetry(retry_resolved(CurRetry, v))
  /\ lastOp' = "resolves"
  /\ UNCHANGED <<retryOptions, outsideRetry>>

\* fn is invoked and rejects (or throws)
RetryFnRejects ==
  /\ retryPc = "loop"
  /\ retry_enters
  /\ \E e \in Errors :
       /\ fnLog' = Append(fnLog, [ok |-> FALSE, v |-> e])
       /\ IF retryKind = "retry"
          THEN \E d \in retry_finalDelay(attempt) : StoreRetry(retry_catch(CurRetry, e, d))
          ELSE StoreRetry(simpleRetry_catch(CurRetry, e))
  /\ lastOp' = "rejects"
  /\ UNCHANGED <<retryOptions, outsideRetry>>

\* the timer of the sleep fires
RetryWake ==
  /\ retryPc = "sleeping"
  /\ StoreRetry(IF retryKind = "retry" THEN retry_next(CurRetry)
                ELSE simpleRetry_next(CurRetry))
  /\ lastOp' = "wake"
  /\ UNCHANGED <<retryOptions, outsideRetry, fnLog>>

\* retry: the loop condition fails and `throw lastError` runs
RetryLoopExit ==
  /\ retryPc = "loop"
  /\ ~retry_enters
  /\ StoreRetry(retry_rejected(CurRetry, lastError))
  /\ lastOp' = "exit"
  /\ UNCHANGED <<retryOptions, outsideRetry, fnLog>>

NextRetry ==
  \/ RetryFnResolves
  \/ RetryFnRejects
  \/ RetryWake
  \/ RetryLoopExit

SpecRetry == InitRetry /\ [][NextRetry]_vars

\* ---- vocabulary
Invoked == Len(fnLog)
AllFailed == \A i \in 1..Len(fnLog) : ~fnLog[i].ok
RetrySettled == retryPc \in {"resolved", "rejected"}

\* ------------------------------------------------------------------- C18
\* C18, as the specification states it: fn is invoked at most maxAttempts
\* times; only the last invocation can have succeeded, and then the promise
\* resolved with its value; when maxAttempts invocations all failed the
\* promise rejected with the error of the last one.  simpleRetry(fn, 0)
\* violates the first part: it invokes fn once.
C18_AtMostMaxAttempts ==
  /\ Invoked <= maxAttempts
  /\ \A i \in 1..Len(fnLog) :
       fnLog[i].ok => /\ i = Len(fnLog)
                      /\ settled = [how |-> "resolved", v |-> fnLog[i].v]
  /\ (maxAttempts >= 1 /\ Invoked = maxAttempts /\ AllFailed)
       => settled = [how |-> "rejected", v |-> Last(fnLog).v]

\* C18, amended: what the original states holds for maxAttempts >= 1; with
\* maxAttempts = 0 retry rejects with undefined without invoking fn, and
\* simpleRetry invokes fn exactly once and settles as that invocation does.
C18_AtMostMaxAttemptsFromOne ==
  /\ maxAttempts >= 1 => Invoked <= maxAttempts
  /\ \A i \in 1..Len(fnLog) :
       fnLog[i].ok => /\ i = Len(fnLog)
                      /\ settled = [how |-> "resolved", v |-> fnLog[i].v]
  /\ (maxAttempts >= 1 /\ Invoked = maxAttempts /\ AllFailed)
       => settled = [how |-> "rejected", v |-> Last(fnLog).v]
  /\ (maxAttempts = 0 /\ retryKind = "retry")
       => /\ Invoked = 0
          /\ RetrySettled => settled = [how |-> "rejected", v |-> Undefined]
  /\ (maxAttempts = 0 /\ retryKind = "simpleRetry")
       => /\ Invoked <= 1
          /\ Invoked = 1 => /\ RetrySettled
                            /\ settled.v = fnLog[1].v
                            /\ settled.how = IF fnLog[1].ok THEN "resolved" ELSE "rejected"
  /\ RetrySettled => (Invoked >= 1 \/ maxAttempts = 0)

\* every attempt of three failed, with two different errors
C18_Witness ==
  /\ maxAttempts = 3
  /\ Invoked = 3
  /\ AllFailed
  /\ fnLog[1].v # fnLog[3].v
  /\ settled = [how |-> "rejected", v |-> fnLog[3].v]

\* the second attempt of three succeeded
C18_WitnessResolved ==
  /\ maxAttempts = 3
  /\ Invoked = 2
  /\ settled = [how |-> "resolved", v |-> 102]

\* ------------------------------------------------------------------- C19
\* C19: in retry, an attempt whose error retryCondition refuses is the last
\* invocation: the promise rejected with that error, onRetry was not called
\* for it and no delay was slept after it.  onRetry was called exactly once
\* for every attempt that was followed by a retry, in order, with that
\* attempt's error and its 1-based number, and never for the final attempt.
C19_RetryConditionAndOnRetry ==
  retryKind = "retry" =>
    /\ \A i \in 1..Len(fnLog) :
         (~fnLog[i].ok /\ ~retryCondition(fnLog[i].v))
           => /\ i = Len(fnLog)
              /\ settled = [how |-> "rejected", v |-> fnLog[i].v]
              /\ Len(onRetryLog) = i - 1
              /\ Len(sleepLog) = i - 1
    /\ \A i \in 1..Len(onRetryLog) :
         /\ i <= Len(fnLog)
         /\ onRetryLog[i] = <<fnLog[i].v, i>>
         /\ i < maxAttempts
    /\ Len(onRetryLog) = IF RetrySettled /\ fnLog # << >>
                         THEN Len(fnLog) - 1 ELSE Len(fnLog)
    /\ Len(sleepLog) = Len(onRetryLog)

\* the second attempt of three failed with an error retryCondition refuses,
\* after a first failure that was retried
C19_Witness ==
  /\ retryKind = "retry"
  /\ maxAttempts = 3
  /\ Invoked = 2
  /\ ~retryCondition(fnLog[2].v)
  /\ retryCondition(fnLog[1].v)
  /\ settled = [how |-> "rejected", v |-> fnLog[2].v]
  /\ onRetryLog = << <<fnLog[1].v, 1>> >>

\* all three attempts failed with retryable errors: onRetry ran twice
C19_WitnessFinal ==
  /\ retryKind = "retry"
  /\ maxAttempts = 3
  /\ Invoked = 3
  /\ retryPc = "rejected"
  /\ retryCondition(fnLog[3].v)
  /\ Len(onRetryLog) = 2

\* ================================================================ memoize
\* memoize with the default 'lru' strategy and createClearableMemoize
\* (function-utils/memoize.ts).  A call passes arguments for which the
\* keyResolver returns `key`; the cache is a map from keys to
\* [value, timestamp] and keyOrder the LRU list.  They run under their own
\* specification, SpecMemo.

Keys == 0..MaxKey

\* JavaScript truthiness of a number or undefined, and of a string key
Truthy(n) == n # Undefined /\ n # 0
TruthyKey(k) == k # Undefined /\ k # EmptyString

Range(q) == {q[i] : i \in 1..Len(q)}

\* keyOrder.indexOf(key) > -1 ? splice(keyIndex, 1)
Splice(q, k) ==
  IF k \in Range(q)
  THEN LET i == CHOOSE j \in 1..Len(q) : q[j] = k /\ \A h \in 1..(j - 1) : q[h] # k
       IN SubSeq(q, 1, i - 1) \o SubSeq(q, i + 1, Len(q))
  ELSE q

MapDelete(c, k) == [x \in DOMAIN c \ {k} |-> c[x]]
MapSet(c, k, v) == [x \in DOMAIN c \cup {k} |-> IF x = k THEN v ELSE c[x]]
MapSize(c) == Cardinality(DOMAIN c)

CurMemo == [cache |-> cache, keyOrder |-> keyOrder, hit |-> FALSE, value |-> Undefined]

\* the TTL check: is the cached entry of `key` expired at time t
memoize_expired(m, key, t) ==
  /\ key \in DOMAIN m.cache
  /\ Truthy(ttl)
  /\ Truthy(m.cache[key].timestamp)
  /\ t - m.cache[key].timestamp > ttl

\* the miss path: invoke fn, evict the oldest key when full, insert
memoize_store(m, key, t) ==
  LET res == fn(key)
      full == MapSize(m.cache) >= maxSize /\ key \notin DOMAIN m.cache
      oldestKey == IF m.keyOrder = << >> THEN Undefined ELSE Head(m.keyOrder)
      order1 == IF full /\ m.keyOrder # << >> THEN Tail(m.keyOrder) ELSE m.keyOrder
      cache1 == IF full /\ TruthyKey(oldestKey) THEN MapDelete(m.cache, oldestKey)
                ELSE m.cache
      cache2 == MapSet(cache1, key,
                       [value |-> res, timestamp |-> IF Truthy(ttl) THEN t ELSE Undefined])
      order2 == IF key \in Range(order1) THEN order1 ELSE Append(order1, key)
  IN [m EXCEPT !.cache = cache2, !.keyOrder = order2, !.hit = FALSE, !.value = res]

\* the function memoize returns
memoize_memoized(m, key, t) ==
  IF memoize_expired(m, key, t)
  THEN memoize_store([m EXCEPT !.cache = MapDelete(@, key),
                               !.keyOrder = Splice(@, key)], key, t)
  ELSE IF key \in DOMAIN m.cache
    THEN [m EXCEPT !.keyOrder = IF key \in Range(@) THEN Append(Splice(@, key), key) ELSE @,
                   !.hit = TRUE,
                   !.value = m.cache[key].value]
  ELSE memoize_store(m, key, t)

\* createClearableMemoize: `memoized` repeats the body of memoize's function
clearable_memoized(m, key, t) == memoize_memoized(m, key, t)

clearable_clear(m) == [m EXCEPT !.cache = << >>, !.keyOrder = << >>]

clearable_size(m) == MapSize(m.cache)

InitMemo ==
  /\ ControllersUnused
  /\ BreakerUnused
  /\ RetryUnused
  /\ now \in {0, Epoch}
  /\ lastOp = "new"
  /\ memoKind \in {"memoize", "clearable"}
  /\ maxSize \in 1..MaxSize
  /\ ttl \in {Undefined} \cup 0..MaxTtl
  /\ cache = << >>
  /\ keyOrder = << >>
  /\ weakCache = << >>
  /\ memoLog = [MemoLogInit EXCEPT !.start = now]

memoOptions == <<memoKind, maxSize, ttl, weakCache>>
outsideMemo == <<controllerState, breakerVars, retryVars>>

\* a call of the memoized function
MemoCall ==
  /\ memoLog.calls < MaxMemoCalls
  /\ \E key \in Keys :
       LET m == IF memoKind = "memoize" THEN memoize_memoized(CurMemo, key, now)
                ELSE clearable_memoized(CurMemo, key, now)
           Kept(k) == k \in DOMAIN m.cache /\ k # key
       IN /\ cache' = m.cache
          /\ keyOrder' = m.keyOrder
          /\ memoLog' = [memoLog EXCEPT
                           !.calls = @ + 1,
                           !.fnCalls = IF m.hit THEN @ ELSE @ + 1,
                           !.key = key,
                           !.hit = m.hit,
                           !.value = m.value,
                           !.used = Append(SelectSeq(@, Kept), key),
                           !.storedAt = [k \in DOMAIN m.cache |->
                                           IF k = key /\ ~m.hit THEN now ELSE @[k]]]
  /\ lastOp' = "call"
  /\ UNCHANGED <<memoOptions, outsideMemo, now>>

\* clear() of createClearableMemoize
MemoClear ==
  /\ memoKind = "clearable"
  /\ LET m == clearable_clear(CurMemo)
     IN /\ cache' = m.cache
        /\ keyOrder' = m.keyOrder
  /\ memoLog' = [memoLog EXCEPT !.used = << >>, !.storedAt = << >>]
  /\ lastOp' = "clear"
  /\ UNCHANGED <<memoOptions, outsideMemo, now>>

\* a millisecond passes
MemoTick ==
  /\ now < memoLog.start + MaxMemoTime
  /\ now' = now + 1
  /\ lastOp' = "tick"
  /\ UNCHANGED <<memoOptions, outsideMemo, cache, keyOrder, memoLog>>

NextMemo ==
  \/ MemoCall
  \/ MemoClear
  \/ MemoTick

SpecMemo == InitMemo /\ [][NextMemo]_vars

MemoTypeOK ==
  /\ DOMAIN cache \subseteq Keys
  /\ \A i \in 1..Len(keyOrder) : keyOrder[i] \in Keys
  /\ \A i, j \in 1..Len(keyOrder) : keyOrder[i] = keyOrder[j] => i = j

\* ------------------------------------------------------------------- C20
\* C20, as the specification states it: for maxSize >= 1 and any keys, the
\* empty string included, the number of cached entries never exceeds
\* maxSize and the cached keys are exactly the keys of the LRU order list.
\* The code does not satisfy it: the key '' is dropped from the order list
\* at eviction but not from the cache.
C20_SizeBound ==
  /\ clearable_size(CurMemo) <= maxSize
  /\ DOMAIN cache = Range(keyOrder)

\* ------------------------------------------------------------------- C21
\* C21, as the specification states it: a call with a key that is not
\* cached, made when the cache holds maxSize entries or more, removes
\* exactly the least recently used entry and keeps every other entry as it
\* was; and fn is invoked by a call only when its key is not cached or its
\* entry is older than ttl.  The code does not satisfy the first part when
\* the least recently used key is ''.
C21_Step ==
  (lastOp' = "call" /\ memoLog'.calls = memoLog.calls + 1) =>
    LET key == memoLog'.key
    IN /\ (key \notin DOMAIN cache /\ MapSize(cache) >= maxSize)
            => /\ DOMAIN cache' = (DOMAIN cache \ {Head(memoLog.used)}) \cup {key}
               /\ \A k \in DOMAIN cache \cap DOMAIN cache' : cache'[k] = cache[k]
       /\ ~memoLog'.hit
            => \/ key \notin DOMAIN cache
               \/ ttl # Undefined /\ now - memoLog.storedAt[key] > ttl

C21_LruEviction == [][C21_Step]_vars

\* ------------------------------------------------------------------- C22
\* C22, as the specification states it: with a ttl of at least 1 ms, a call
\* whose key is cached is served from the cache, without invoking fn, if
\* and only if its entry was stored at most ttl ago; otherwise the entry is
\* replaced by a recomputed one stored now.  This is to hold whatever the
\* clock read when the entry was stored.  The code does not satisfy it for
\* an entry stored when the clock read 0.
C22_Step ==
  (/\ lastOp' = "call"
   /\ memoLog'.calls = memoLog.calls + 1
   /\ ttl # Undefined
   /\ ttl >= 1
   /\ memoLog'.key \in DOMAIN cache) =>
    LET key == memoLog'.key
        fresh == now - memoLog.storedAt[key] <= ttl
    IN /\ memoLog'.hit <=> fresh
       /\ fresh => /\ memoLog'.value = cache[key].value
                   /\ memoLog'.fnCalls = memoLog.fnCalls
                   /\ cache'[key] = cache[key]
       /\ ~fresh => /\ memoLog'.fnCalls = memoLog.fnCalls + 1
                    /\ memoLog'.storedAt[key] = now
                    /\ cache'[key].timestamp = now

C22_TtlExpiry == [][C22_Step]_vars

\* ============================================== controllers, further claims
\* the deferral timers of the controller that are armed
DeferralTimers == {t \in timers : t.cb = "timerExpired"}

\* ------------------------------------------------------------------- C23
\* C23, as the specification states it: at most one deferral timer (the
\* maxWait timer not counted) is armed at any time, and it is the one the
\* handle names: when the handle is unset none is armed.  The code does not
\* satisfy it: the trailing edge unsets the handle without clearing the
\* timer, and a debounce call past maxWait arms a second one.
C23_SingleTimer ==
  /\ Cardinality(DeferralTimers) <= 1
  /\ \A t \in DeferralTimers : t.id = timerId

\* ------------------------------------------------------------------- C24
\* C24, as the specification states it: when flush() has returned, no
\* arguments are stored and no timer of the controller is armed.  The code
\* does not satisfy it: flush() leaves the deferral timer armed.
C24_IdleAfterFlush ==
  lastOp = "flush" => /\ lastArgs = Undefined
                      /\ timers = {}

\* ------------------------------------------------------------------- C25
\* a controller call has just been made while the timer the handle names
\* was armed
CallWhileArmed ==
  /\ lastOp' = "call"
  /\ callCount' = callCount + 1
  /\ timerId # Undefined
  /\ \E t \in timers : t.id = timerId

\* the arguments of the call just made are stored, or were passed to the
\* wrapped operation by the call itself
ArgsTaken ==
  \/ lastArgs' = callCount' /\ invocations' = invocations
  \/ /\ lastArgs' = Undefined
     /\ Len(invocations') = Len(invocations) + 1
     /\ Last(invocations').args = callCount'

\* C25, as the specification states it: a call made while a timer is armed
\* takes over the pending arguments; in debounce the armed timer is
\* cancelled and a new one is armed for a full wait, in throttle the armed
\* timer is left as it is.  The debounce part does not hold: the code
\* never cancels the timer on a call.
C25_Step ==
  CallWhileArmed =>
    /\ ArgsTaken
    /\ kind = "debounce"
         => /\ \A t \in timers' : t.id # timerId
            /\ timerId' # timerId
            /\ \E t \in timers' : /\ t.id = timerId'
                                  /\ t.cb = "timerExpired"
                                  /\ t.due = now + wait
    /\ kind = "throttle" => timerId' = timerId /\ timers' = timers

PastDeadline ==
  \/ now - lastCallTime >= wait
  \/ maxWait # Undefined /\ now - lastInvokeTime >= maxWait

\* C25, amended: a call made while a timer is armed takes over the pending
\* arguments and, in throttle and in debounce alike, leaves the armed timer
\* as it is (its expiry re-validates and re-arms for the remaining wait);
\* only a debounce call with maxWait set that comes past the deadline arms
\* a further timer for a full wait, and the earlier one stays armed too.
C25_AmendedStep ==
  CallWhileArmed =>
    /\ ArgsTaken
    /\ IF kind = "debounce" /\ maxWait # Undefined /\ PastDeadline
       THEN /\ \A t \in timers : t \in timers'
            /\ timerId' # timerId
            /\ \E t \in timers' \ timers : /\ t.id = timerId'
                                           /\ t.cb = "timerExpired"
                                           /\ t.due = now + wait
            /\ \A t \in timers' \ timers : t.id = timerId' \/ t.id = maxTimeoutId'
       ELSE /\ timerId' = timerId
            /\ timers' = timers
            /\ lastArgs' = callCount'

C25_WitnessMaxWait ==
  /\ kind = "debounce"
  /\ maxWait # Undefined
  /\ lastOp = "call"
  /\ Cardinality(DeferralTimers) >= 2
  /\ \E t \in timers : t.id = timerId /\ t.due = now + wait

\* ------------------------------------------------------------------- C26
\* Liveness is checked for controllers with trailing enabled, in runs
\* without cancel() whose calls and flushes come within LiveHorizon of the
\* construction, in which time does not stop while a timer is armed, every
\* due timer callback eventually runs and the clock eventually moves on.

InitLive == Init /\ trailing

Early == now <= Epoch + LiveHorizon

\* the clock moves on by one unit; past the horizon of the calls it does so
\* as long as a timer is armed, once the callbacks that are due have run
TickLive ==
  /\ Early \/ (timers # {} /\ Due = {})
  /\ now' = now + 1
  /\ lastOp' = "tick"
  /\ hist' = [hist EXCEPT !.late = Overtaken, !.flushes = 0]
  /\ UNCHANGED <<cfg, closure, timers, invocations, error, ret, callCount, beyondControllers>>

NextLive ==
  \/ Early /\ Debounced
  \/ Early /\ Throttled
  \/ TimerFire
  \/ MaxTimerFire
  \/ Early /\ Flush
  \/ TickLive

SpecLive ==
  /\ InitLive
  /\ [][NextLive]_vars
  /\ WF_vars(TimerFire)
  /\ WF_vars(MaxTimerFire)
  /\ WF_vars(TickLive)

\* the arguments of the most recent call have been passed to the operation
FinalInvoked == \E i \in 1..Len(invocations) : invocations[i].args = callCount

\* every invocation uses newer arguments than the one before it
NoReordering ==
  \A i, j \in 1..Len(invocations) : i < j => invocations[i].args < invocations[j].args

\* C26: with trailing enabled, the arguments of the final call are
\* eventually passed to the wrapped operation, and at all times the
\* invocations made so far used strictly newer and newer arguments (so none
\* was used twice and none after a newer one).
C26_NoCallLost ==
  /\ []NoReordering
  /\ (trailing /\ callCount >= 1) ~> FinalInvoked

\* the last of several calls was invoked by the timer callback after an
\* earlier call had been coalesced away
C26_Witness ==
  /\ trailing
  /\ callCount >= 2
  /\ FinalInvoked
  /\ Last(invocations).entry = "timer"
  /\ Len(invocations) < callCount

\* ------------------------------------------------------------------- C27
\* C27: invokeFunc never runs with no arguments stored: the error 'No
\* arguments available for invocation' has not been thrown in any reachable
\* state, and every invocation made was given the arguments of a call.
C27_ErrorUnreachable ==
  /\ error = FALSE
  /\ \A i \in 1..Len(invocations) : invocations[i].args \in 1..callCount

\* a debounce call past maxWait invoked the operation itself, with leading
\* enabled, after an earlier invocation and with a timer armed
C27_Witness ==
  /\ kind = "debounce"
  /\ maxWait # Undefined
  /\ leading
  /\ lastOp = "call"
  /\ Len(invocations) >= 2
  /\ Last(invocations).entry = "call"
  /\ Last(invocations).args = callCount
  /\ Cardinality(DeferralTimers) >= 2

\* the maxWait timer ran with nothing stored and invoked nothing
C27_WitnessMaxIdle ==
  /\ kind = "debounce"
  /\ lastOp = "max"
  /\ invocations # << >>
  /\ Last(invocations).at < now

\* ------------------------------------------------------------------- C28
\* Runs in which the wrapped operation throws for some of its arguments;
\* the calls come within LiveHorizon of the construction and cancel() is
\* not used.

\* the operation throws for one of the arguments or for all of them
InitThrow == InitAnyFn /\ fnThrows \in {{k} : k \in 1..MaxCalls} \cup {1..MaxCalls}

NextThrow ==
  \/ Early /\ Debounced
  \/ Early /\ Throttled
  \/ TimerFire
  \/ MaxTimerFire
  \/ Flush
  \/ Tick

SpecThrow == InitThrow /\ [][NextThrow]_vars

\* the step just taken invoked the operation and the operation threw
InvocationThrew ==
  /\ Len(invocations') = Len(invocations) + 1
  /\ Last(invocations').args \in fnThrows

\* C28: when the wrapped operation throws, the exception leaves through
\* the entry point that made the invocation (the call, the timer callback,
\* the maxWait callback or flush()), the cached result keeps its value, the
\* arguments that were consumed are no longer stored, and the controller
\* carries on as after any invocation: the invocation time is recorded, a
\* leading edge leaves its timer armed and a trailing edge leaves the
\* handle unset; no arguments are ever passed to the operation twice and
\* the controller never fails on its own.
C28_Step ==
  InvocationThrew =>
    /\ ret' = Thrown
    /\ Last(invocations').entry = lastOp'
    /\ lastOp' \in {"call", "timer", "max", "flush"}
    /\ result' = result
    /\ lastArgs' = Undefined
    /\ lastInvokeTime' = now
    /\ lastOp' = "call" => \E t \in timers' : t.id = timerId' /\ t.due = now + wait
    /\ lastOp' # "call" => timerId' = Undefined /\ maxTimeoutId' = Undefined

C28_ThrowPassesThrough ==
  /\ [][C28_Step]_vars
  /\ [](NoReordering /\ ~error)
  /\ [](ret = Thrown => (invocations # << >> /\ Last(invocations).args \in fnThrows))

\* the timer callback invoked the operation, which threw, after an earlier
\* invocation had returned a result that is still cached
C28_Witness ==
  /\ lastOp = "timer"
  /\ ret = Thrown
  /\ Len(invocations) >= 2
  /\ Last(invocations).args \in fnThrows
  /\ result = fn(invocations[Len(invocations) - 1].args)
  /\ lastArgs = Undefined

\* a leading-edge call threw and a later call was invoked normally
C28_WitnessLater ==
  /\ Len(invocations) >= 2
  /\ invocations[1].entry = "call"
  /\ invocations[1].args \in fnThrows
  /\ Last(invocations).args \notin fnThrows
  /\ result = fn(Last(invocations).args)

\* =========================================================== memoizeWeak
\* memoize with strategy 'weak' (function-utils/memoize.ts).  A call passes
\* a first argument that is one of the objects 1..MaxObjects or not an
\* object (Undefined here), and further arguments; `key` is what the
\* keyResolver returns for the arguments it is applied to.  It runs under
\* its own specification, SpecWeak.

Objects == 1..MaxObjects

\* the wrapped function: its result identifies its arguments
weakFn(obj, key) == fn(key) + 10 * (IF obj = Undefined THEN 0 ELSE obj)

\* a memoize instance as memoize(fn, { keyResolver }) has just built it
FreshMemo == [cache |-> << >>, keyOrder |-> << >>, hit |-> FALSE, value |-> Undefined]

\* the function memoizeWeak returns; w is the WeakMap
memoizeWeak_memoized(w, obj, key, t) ==
  IF obj # Undefined
  THEN IF obj \in DOMAIN w /\ key \in DOMAIN w[obj]
       THEN [weakCache |-> w, hit |-> TRUE, value |-> w[obj][key]]
       ELSE LET w1 == IF obj \in DOMAIN w THEN w ELSE MapSet(w, obj, << >>)
                res == weakFn(obj, key)
            IN [weakCache |-> MapSet(w1, obj, MapSet(w1[obj], key, res)),
                hit |-> FALSE, value |-> res]
  ELSE LET m == memoize_memoized(FreshMemo, key, t)
       IN [weakCache |-> w, hit |-> m.hit, value |-> m.value]

InitWeak ==
  /\ ControllersUnused
  /\ BreakerUnused
  /\ RetryUnused
  /\ now = Epoch
  /\ lastOp = "new"
  /\ memoKind = "weak"
  /\ maxSize = 100
  /\ ttl = Undefined
  /\ cache = << >>
  /\ keyOrder = << >>
  /\ weakCache = << >>
  /\ memoLog = [MemoLogInit EXCEPT !.start = now]

\* a call of the weakly memoized function
WeakCall ==
  /\ memoKind = "weak"
  /\ memoLog.calls < MaxMemoCalls
  /\ \E obj \in Objects \cup {Undefined}, key \in Keys :
       LET m == memoizeWeak_memoized(weakCache, obj, key, now)
       IN /\ weakCache' = m.weakCache
          /\ memoLog' = [memoLog EXCEPT !.calls = @ + 1,
                                        !.fnCalls = IF m.hit THEN @ ELSE @ + 1,
                                        !.key = <<obj, key>>,
                                        !.hit = m.hit,
                                        !.value = m.value,
                                        !.seen = @ \cup {<<obj, key>>}]
  /\ lastOp' = "call"
  /\ UNCHANGED <<memoKind, maxSize, ttl, cache, keyOrder, outsideMemo, now>>

NextWeak == WeakCall

SpecWeak == InitWeak /\ [][NextWeak]_vars

\* ------------------------------------------------------------------- C29
\* C29, as the specification states it: a call of the weakly memoized
\* function with arguments it was called with before does not invoke fn and
\* returns the value fn gave for them, whether the first argument is an
\* object or not.  The code does not satisfy it for a first argument that
\* is not an object: the fallback builds a new cache on every call.
C29_Step ==
  (lastOp' = "call" /\ memoLog'.calls = memoLog.calls + 1 /\ memoLog'.key \in memoLog.seen)
    => /\ memoLog'.hit
       /\ memoLog'.fnCalls = memoLog.fnCalls
       /\ memoLog'.value = weakFn(memoLog'.key[1], memoLog'.key[2])

C29_WeakFallback == [][C29_Step]_vars

\* ======================================================== simpleDebounce
\* debounce of function.ts next to the debounce of function-utils with its
\* default options: both are given the same calls at the same times, and
\* the timers of both fire on time, that is, no call is made and the clock
\* does not move while a timer of either is due.  They run under their own
\* specification, SpecEquiv.

CurSimple ==
  [timeout |-> timeout, timers |-> simpleTimers, invocations |-> simpleInvocations,
   now |-> now]

StoreSimple(d) ==
  /\ timeout' = d.timeout
  /\ simpleTimers' = d.timers
  /\ simpleInvocations' = d.invocations

FreshSimpleId(d) ==
  CHOOSE i \in 1..(Cardinality(d.timers) + 2) :
    /\ \A t \in d.timers : t.id # i
    /\ i # d.timeout

\* variant: the armed timer is not cleared before a new one is armed
simpleDebounce_debounced_NoClear(d, args) ==
  LET t == [id |-> FreshSimpleId(d), args |-> args, due |-> d.now + wait]
  IN [d EXCEPT !.timeout = t.id, !.timers = @ \cup {t}]

\* the function debounce returns
simpleDebounce_debounced(d, args) ==
  LET d1 == IF d.timeout # Undefined
            THEN [d EXCEPT !.timers = {t \in @ : t.id # d.timeout}]
            ELSE d
      t == [id |-> FreshSimpleId(d1), args |-> args, due |-> d.now + wait]
  IN [d1 EXCEPT !.timeout = t.id, !.timers = @ \cup {t}]

\* the timer callback () => func(...args), for the timer t
simpleDebounce_callback(d, t) ==
  [d EXCEPT !.timers = @ \ {t},
            !.invocations = Append(@, [at |-> d.now, args |-> t.args])]

SimpleDue == {t \in simpleTimers : t.due <= now}

OnTime == Due = {} /\ SimpleDue = {}

InitEquiv ==
  /\ kind = "debounce"
  /\ wait \in 1..MaxDelay
  /\ leading = FALSE
  /\ trailing = TRUE
  /\ maxWait = Undefined
  /\ fnThrows = {}
  /\ lastCallTime = Undefined
  /\ lastInvokeTime = 0
  /\ lastArgs = Undefined
  /\ result = Undefined
  /\ timerId = Undefined
  /\ maxTimeoutId = Undefined
  /\ timers = {}
  /\ now = Epoch
  /\ invocations = << >>
  /\ error = FALSE
  /\ ret = Undefined
  /\ lastOp = "new"
  /\ callCount = 0
  /\ hist = HistInit
  /\ SimpleDebounceUnused
  /\ BreakerUnused
  /\ RetryUnused
  /\ MemoUnused

\* the caller calls both debounced functions with the same new argument
EquivCall ==
  /\ OnTime
  /\ callCount < MaxEquivCalls
  /\ Store(debounce_debounced(Cur("call"), callCount + 1), "call")
  /\ StoreSimple(simpleDebounce_debounced(CurSimple, callCount + 1))
  /\ callCount' = callCount + 1
  /\ hist' = HistCall
  /\ UNCHANGED <<cfg, now, breakerVars, retryVars, memoVars>>

\* the host runs a timer callback of simpleDebounce that is due
SimpleDebounceFire ==
  /\ \E t \in SimpleDue : StoreSimple(simpleDebounce_callback(CurSimple, t))
  /\ lastOp' = "simpleTimer"
  /\ UNCHANGED <<cfg, closure, timers, now, invocations, error, ret, callCount, hist,
                 breakerVars, retryVars, memoVars>>

\* the clock moves on by one unit once every due callback has run
EquivTick ==
  /\ OnTime
  /\ now < Epoch + MaxEquivTime
  /\ now' = now + 1
  /\ lastOp' = "tick"
  /\ UNCHANGED <<cfg, closure, timers, invocations, error, ret, callCount, hist,
                 beyondControllers>>

NextEquiv ==
  \/ EquivCall
  \/ TimerFire
  \/ SimpleDebounceFire
  \/ EquivTick

SpecEquiv == InitEquiv /\ [][NextEquiv]_vars

\* what an observer of the wrapped operation sees of the debounce of
\* function-utils: when it was invoked and with what
Observed == [i \in 1..Len(invocations) |-> [at |-> invocations[i].at,
                                            args |-> invocations[i].args]]

\* ------------------------------------------------------------------- C30
\* C30: for wait >= 1 and timers firing on time, whenever no timer callback
\* of either debounce is due, the debounce of function-utils with default
\* options and the debounce of function.ts, given the same calls, have
\* invoked the wrapped operation at the same times with the same arguments.
C30_Equivalent == OnTime => Observed = simpleInvocations

\* both invoked exactly once, with the arguments of the later of two calls
\* made at different times, after the timer of the first had re-armed
C30_Witness ==
  /\ callCount = 2
  /\ lastCallTime > Epoch
  /\ Len(simpleInvocations) = 1
  /\ simpleInvocations[1] = [at |-> lastCallTime + wait, args |-> 2]
  /\ Observed = simpleInvocations
  /\ OnTime

\* two invocations each: a second burst after the first had been invoked
C30_WitnessTwoBursts ==
  /\ Len(simpleInvocations) = 2
  /\ Observed = simpleInvocations
  /\ OnTime

====
